---- MODULE Spec2Model ----
(***************************************************************************)
(* A state-machine model of the di-container resolution engine:            *)
(* Container (registry, parent, snapshots), Context (resolved cache,       *)
(* resolution stack, delayed callbacks queue) and the circular() lazy      *)
(* stand-in.  JavaScript objects that are shared by reference (registry    *)
(* Maps, registration arrays, registration records, service instances,     *)
(* contexts) live in heaps indexed by object identity, so that aliasing    *)
(* between a container's registry, its merged view, its snapshots and the  *)
(* contexts that closures keep alive is the aliasing of the code.          *)
(***************************************************************************)
EXTENDS Integers, Sequences, FiniteSets, TLC

(***************************************************************************)
(* Bounds of the model.                                                    *)
(***************************************************************************)
MaxContainers == 3
MaxDepth == 13

(***************************************************************************)
(* JavaScript values.  Objects created by factories are positive heap      *)
(* identities; the values a caller can hand to registerConstant or return  *)
(* from a factory are encoded as non-positive integers.                    *)
(***************************************************************************)
Undefined == 0
NumZero == -1
EmptyString == -2
BoolFalse == -3
Null == -4
TruthyString == -5
ExtObject1 == -6
ExtObject2 == -7

FalsyConstants == {NumZero, EmptyString, BoolFalse, Null}
TruthyConstants == {TruthyString, ExtObject1, ExtObject2}

\* JavaScript truthiness, as tested by `if (registration.instance)`,
\* `named && named.service` and `if (!instance)`.
Truthy(v) == v > 0 \/ v <= TruthyString

(***************************************************************************)
(* Service keys and names.  "fnA" stands for a class (constructor) key     *)
(* whose class name is "A": it is a key distinct from the string key "A".  *)
(* "fnA2" stands for another class of that name.  The keys of the three    *)
(* services that refer to each other are CycleKeys.                        *)
(***************************************************************************)
ServiceKeys == {"A", "B", "fnA", "fnA2"}
KeySeq == <<"A", "B", "fnA", "fnA2">>
CycleKeys == {"A", "B", "fnA"}
ServiceNames == {"default", "n1", "n2"}
Lifecycles == {"transient", "singleton", "request"}

stringifyServiceKey(key) == IF key \in {"fnA", "fnA2"} THEN "A" ELSE key

VARIABLES
    parent,       \* parent[c]: parent container of c, 0 for none
    registry,     \* registry[c]: identity of the live registry Map of c
    snapshots,    \* snapshots[c]: stack of registry Map identities
    maps,         \* heap of Maps: key -> identity of registration array, 0 = no entry
    lists,        \* heap of registration arrays: sequences of record identities
    regs,         \* heap of ServiceRegistration records
    objs,         \* heap of service instances and stand-ins
    ctxs,         \* heap of Context objects
    callstack,    \* the call stack of the running root call, innermost frame last
    ret,          \* value or exception travelling from a callee to its caller
    results,      \* outcome of every finished root call, in order
    invoked,      \* log: every invocation of a registered factory
    handed,       \* log: every value returned by Context.resolve
    lastOp        \* the last container operation and how it ended

vars == <<parent, registry, snapshots, maps, lists, regs, objs, ctxs,
          callstack, ret, results, invoked, handed, lastOp>>

(***************************************************************************)
(* The container part of the state, passed through the operations.         *)
(***************************************************************************)
H == [parent |-> parent, registry |-> registry, snapshots |-> snapshots,
      maps |-> maps, lists |-> lists, regs |-> regs]

SetH(h) ==
    /\ parent' = h.parent
    /\ registry' = h.registry
    /\ snapshots' = h.snapshots
    /\ maps' = h.maps
    /\ lists' = h.lists
    /\ regs' = h.regs

EmptyMap == [k \in ServiceKeys |-> 0]

Containers == 1..Len(parent)

\* Array.prototype.find((r) => r.name === name) on a registration array:
\* the index of the first record of that name, 0 if none.
RECURSIVE FindFrom(_, _, _, _)
FindFrom(rg, list, name, i) ==
    IF i > Len(list) THEN 0
    ELSE IF rg[list[i]].name = name THEN i
    ELSE FindFrom(rg, list, name, i + 1)

IndexOfName(rg, list, name) == FindFrom(rg, list, name, 1)

\* A faulty variant of Array.prototype.splice(i, 1) that fills the gap with
\* the last element (C31 must not hold of it).
RemoveAtSwapping(s, i) ==
    IF i = Len(s) THEN SubSeq(s, 1, Len(s) - 1)
    ELSE [k \in 1..(Len(s) - 1) |-> IF k = i THEN s[Len(s)] ELSE s[k]]

RemoveAt(s, i) == SubSeq(s, 1, i - 1) \o SubSeq(s, i + 1, Len(s))

(***************************************************************************)
(* Container.createRegistration                                            *)
(***************************************************************************)
createRegistration(serviceOrFactory, isFactory, options) ==
    [name |-> IF options.name = "" THEN "default" ELSE options.name,
     lifecycle |-> IF options.lifecycle = "" THEN "transient" ELSE options.lifecycle,
     instance |-> IF ~isFactory THEN serviceOrFactory ELSE Undefined,
     factory |-> IF isFactory THEN serviceOrFactory ELSE 0]

(***************************************************************************)
(* Two faulty variants of Container.registerConstantOrFactory.  The first  *)
(* replaces an existing registration even when `replace` is not set (C7    *)
(* must not hold of it); the second keeps the instance cached on the       *)
(* replaced record when the new record brings none (C8 must not hold of    *)
(* it).                                                                    *)
(***************************************************************************)
registerAlwaysReplacing(h, c, key, serviceOrFactory, isFactory, options) ==
    LET registration == createRegistration(serviceOrFactory, isFactory, options)
        m == h.registry[c]
        existingRegistrations == h.maps[m][key]
        newReg == Len(h.regs) + 1
        withReg == [h EXCEPT !.regs = Append(@, registration)]
    IN  IF existingRegistrations = 0
        THEN [h |-> [withReg EXCEPT !.lists = Append(@, <<newReg>>),
                                    !.maps[m][key] = Len(h.lists) + 1],
              err |-> ""]
        ELSE LET index == IndexOfName(h.regs, h.lists[existingRegistrations],
                                      registration.name)
             IN  IF index = 0
                 THEN [h |-> [withReg EXCEPT !.lists[existingRegistrations] =
                                                 Append(@, newReg)],
                       err |-> ""]
                 ELSE [h |-> [withReg EXCEPT !.lists[existingRegistrations][index] =
                                                 newReg],
                       err |-> ""]

registerMergingOnReplace(h, c, key, serviceOrFactory, isFactory, options) ==
    LET registration == createRegistration(serviceOrFactory, isFactory, options)
        m == h.registry[c]
        existingRegistrations == h.maps[m][key]
        newReg == Len(h.regs) + 1
        withReg == [h EXCEPT !.regs = Append(@, registration)]
    IN  IF existingRegistrations = 0
        THEN [h |-> [withReg EXCEPT !.lists = Append(@, <<newReg>>),
                                    !.maps[m][key] = Len(h.lists) + 1],
              err |-> ""]
        ELSE LET index == IndexOfName(h.regs, h.lists[existingRegistrations],
                                      registration.name)
             IN  IF index = 0
                 THEN [h |-> [withReg EXCEPT !.lists[existingRegistrations] =
                                                 Append(@, newReg)],
                       err |-> ""]
                 ELSE IF ~options.replace
                 THEN [h |-> h, err |-> "TypeError"]
                 ELSE LET old == h.regs[h.lists[existingRegistrations][index]]
                          merged == IF registration.instance = Undefined
                                    THEN [registration EXCEPT !.instance = old.instance]
                                    ELSE registration
                      IN  [h |-> [h EXCEPT !.regs = Append(@, merged),
                                           !.lists[existingRegistrations][index] = newReg],
                           err |-> ""]

(***************************************************************************)
(* Container.registerConstantOrFactory: the new heap and the error thrown  *)
(* ("" for none).                                                          *)
(***************************************************************************)
registerConstantOrFactory(h, c, key, serviceOrFactory, isFactory, options) ==
    LET registration == createRegistration(serviceOrFactory, isFactory, options)
        m == h.registry[c]
        existingRegistrations == h.maps[m][key]
        newReg == Len(h.regs) + 1
        withReg == [h EXCEPT !.regs = Append(@, registration)]
    IN  IF existingRegistrations = 0
        THEN [h |-> [withReg EXCEPT !.lists = Append(@, <<newReg>>),
                                    !.maps[m][key] = Len(h.lists) + 1],
              err |-> ""]
        ELSE LET index == IndexOfName(h.regs, h.lists[existingRegistrations],
                                      registration.name)
             IN  IF index = 0
                 THEN [h |-> [withReg EXCEPT !.lists[existingRegistrations] =
                                                 Append(@, newReg)],
                       err |-> ""]
                 ELSE IF ~options.replace
                 THEN [h |-> h, err |-> "TypeError"]
                 ELSE [h |-> [withReg EXCEPT !.lists[existingRegistrations][index] =
                                                 newReg],
                       err |-> ""]

\* A faulty variant of Container.unregisterOwn that drops the whole key also
\* when a name is given (C12 must not hold of it).
unregisterOwnWholeKey(h, c, key, name) ==
    [h EXCEPT !.maps[h.registry[c]][key] = 0]

(***************************************************************************)
(* Container.unregisterOwn and Container.unregister (name "" = omitted).   *)
(***************************************************************************)
\* A faulty variant of Container.unregisterOwn that leaves the key in the
\* registry when its last registration is removed (C38 must not hold of it).
unregisterOwnKeepingKey(h, c, key, name) ==
    LET m == h.registry[c]
        registrations == h.maps[m][key]
    IN  IF name = ""
        THEN [h EXCEPT !.maps[m][key] = 0]
        ELSE IF registrations = 0 THEN h
        ELSE LET i == IndexOfName(h.regs, h.lists[registrations], name)
             IN  [h EXCEPT !.lists[registrations] = IF i = 0 THEN @ ELSE RemoveAt(@, i)]

unregisterOwn(h, c, key, name) ==
    LET m == h.registry[c]
        registrations == h.maps[m][key]
    IN  IF name = ""
        THEN [h EXCEPT !.maps[m][key] = 0]
        ELSE IF registrations = 0 THEN h
        ELSE LET i == IndexOfName(h.regs, h.lists[registrations], name)
                 spliced == IF i = 0 THEN h.lists[registrations]
                            ELSE RemoveAt(h.lists[registrations], i)
             IN  [h EXCEPT !.lists[registrations] = spliced,
                           !.maps[m][key] = IF Len(spliced) = 0 THEN 0 ELSE @]

\* A faulty variant of Container.unregister whose cascade stops at the parent
\* (C13 must not hold of it).
unregisterOneLevel(h, c, key, name, cascade) ==
    LET own == unregisterOwn(h, c, key, name)
    IN  IF cascade /\ h.parent[c] # 0
        THEN unregisterOwn(own, h.parent[c], key, name)
        ELSE own

RECURSIVE unregister(_, _, _, _, _)
unregister(h, c, key, name, cascade) ==
    LET own == unregisterOwn(h, c, key, name)
    IN  IF cascade /\ h.parent[c] # 0
        THEN unregister(own, h.parent[c], key, name, TRUE)
        ELSE own

(***************************************************************************)
(* Container.hasOwn / Container.has (name "" = omitted).                   *)
(***************************************************************************)
hasOwn(h, c, key, name) ==
    LET registrations == h.maps[h.registry[c]][key]
    IN  IF name = ""
        THEN registrations # 0 /\ Len(h.lists[registrations]) # 0
        ELSE registrations # 0 /\ IndexOfName(h.regs, h.lists[registrations], name) # 0

\* A faulty variant of Container.has that never asks the parent (C11 must
\* not hold of it).
hasIgnoringParent(h, c, key, name) == hasOwn(h, c, key, name)

RECURSIVE has(_, _, _, _)
has(h, c, key, name) ==
    IF hasOwn(h, c, key, name) THEN TRUE
    ELSE IF h.parent[c] # 0 THEN has(h, h.parent[c], key, name)
    ELSE FALSE

(***************************************************************************)
(* Container.backup: every record of the live registry is copied into a    *)
(* new Map, the old Map is pushed on the snapshot stack and the copy       *)
(* becomes the live registry.                                              *)
(***************************************************************************)
RECURSIVE CopyRecords(_, _, _)
CopyRecords(rg, list, i) ==
    IF i > Len(list) THEN rg
    ELSE CopyRecords(Append(rg, rg[list[i]]), list, i + 1)

RECURSIVE CopyKeys(_, _, _, _)
CopyKeys(h, old, new, i) ==
    IF i > Len(KeySeq) THEN h
    ELSE LET key == KeySeq[i]
             registrations == h.maps[old][key]
         IN  IF registrations = 0 THEN CopyKeys(h, old, new, i + 1)
             ELSE LET n == Len(h.lists[registrations])
                      first == Len(h.regs)
                      copied == [j \in 1..n |-> first + j]
                      h1 == [h EXCEPT !.regs = CopyRecords(@, h.lists[registrations], 1),
                                      !.lists = Append(@, copied),
                                      !.maps[new][key] = Len(h.lists) + 1]
                  IN  CopyKeys(h1, old, new, i + 1)

\* A faulty variant of Container.backup that pushes the live registry Map
\* and keeps using it, without copying (C14 must not hold of it).
backupWithoutCopy(h, c, cascade) ==
    [h EXCEPT !.snapshots[c] = Append(@, h.registry[c])]

RECURSIVE backup(_, _, _)
backup(h, c, cascade) ==
    LET old == h.registry[c]
        newRegistry == Len(h.maps) + 1
        h1 == CopyKeys([h EXCEPT !.maps = Append(@, EmptyMap)], old, newRegistry, 1)
        h2 == [h1 EXCEPT !.snapshots[c] = Append(@, old),
                         !.registry[c] = newRegistry]
    IN  IF h.parent[c] # 0 /\ cascade
        THEN backup(h2, h.parent[c], TRUE)
        ELSE h2

(***************************************************************************)
(* Container.restore                                                       *)
(***************************************************************************)
\* A faulty variant of Container.restore that never recurses into the
\* parent (C17 must not hold of it).
restoreOwnOnly(h, c, cascade) ==
    LET n == Len(h.snapshots[c])
    IN  IF n = 0 THEN h
        ELSE [h EXCEPT !.maps[h.registry[c]] = EmptyMap,
                       !.registry[c] = h.snapshots[c][n],
                       !.snapshots[c] = SubSeq(@, 1, n - 1)]

\* A faulty variant of Container.restore that takes the oldest snapshot
\* instead of the newest (C16 must not hold of it).
restoreOldest(h, c, cascade) ==
    LET n == Len(h.snapshots[c])
    IN  IF n = 0 THEN h
        ELSE [h EXCEPT !.maps[h.registry[c]] = EmptyMap,
                       !.registry[c] = h.snapshots[c][1],
                       !.snapshots[c] = SubSeq(@, 2, n)]

RECURSIVE restore(_, _, _)
restore(h, c, cascade) ==
    LET n == Len(h.snapshots[c])
        h1 == IF n = 0 THEN h
              ELSE [h EXCEPT !.maps[h.registry[c]] = EmptyMap,
                             !.registry[c] = h.snapshots[c][n],
                             !.snapshots[c] = SubSeq(@, 1, n - 1)]
    IN  IF h.parent[c] # 0 /\ cascade
        THEN restore(h1, h.parent[c], TRUE)
        ELSE h1

(***************************************************************************)
(* Two faulty variants of the merge.  The first moves a name the child     *)
(* also owns to the end of the list instead of replacing it in place (C10  *)
(* must not hold of it); the second lets the parent's registration win     *)
(* over the child's (C9 must not hold of it).                              *)
(***************************************************************************)
RECURSIVE MergeMovingToEnd(_, _, _, _)
MergeMovingToEnd(rg, mergedRegistrations, ownRegistrations, i) ==
    IF i > Len(ownRegistrations) THEN mergedRegistrations
    ELSE LET registration == ownRegistrations[i]
             at == IndexOfName(rg, mergedRegistrations, rg[registration].name)
         IN  IF at # 0
             THEN MergeMovingToEnd(rg, Append(RemoveAt(mergedRegistrations, at),
                                              registration),
                                   ownRegistrations, i + 1)
             ELSE MergeMovingToEnd(rg, Append(mergedRegistrations, registration),
                                   ownRegistrations, i + 1)

RECURSIVE MergeParentWins(_, _, _, _)
MergeParentWins(rg, mergedRegistrations, ownRegistrations, i) ==
    IF i > Len(ownRegistrations) THEN mergedRegistrations
    ELSE LET registration == ownRegistrations[i]
             at == IndexOfName(rg, mergedRegistrations, rg[registration].name)
         IN  IF at # 0
             THEN MergeParentWins(rg, mergedRegistrations, ownRegistrations, i + 1)
             ELSE MergeParentWins(rg, Append(mergedRegistrations, registration),
                                  ownRegistrations, i + 1)

mergeRegistrationsParentWins(rg, parentRegistrations, ownRegistrations) ==
    MergeParentWins(rg, parentRegistrations, ownRegistrations, 1)

(***************************************************************************)
(* Container.mergeRegistrations                                            *)
(***************************************************************************)
RECURSIVE MergeFrom(_, _, _, _)
MergeFrom(rg, mergedRegistrations, ownRegistrations, i) ==
    IF i > Len(ownRegistrations) THEN mergedRegistrations
    ELSE LET registration == ownRegistrations[i]
             at == IndexOfName(rg, mergedRegistrations, rg[registration].name)
         IN  IF at # 0
             THEN MergeFrom(rg, [mergedRegistrations EXCEPT ![at] = registration],
                            ownRegistrations, i + 1)
             ELSE MergeFrom(rg, Append(mergedRegistrations, registration),
                            ownRegistrations, i + 1)

mergeRegistrations(rg, parentRegistrations, ownRegistrations) ==
    MergeFrom(rg, parentRegistrations, ownRegistrations, 1)

(***************************************************************************)
(* Container.getMergedRegistry: the heap after the call and the identity   *)
(* of the Map it returns.  A container without parent returns its live     *)
(* registry Map itself; otherwise a new Map whose arrays are the parent's  *)
(* or the container's own arrays where only one side has the key.          *)
(***************************************************************************)
\* A faulty variant of Container.getMergedRegistry that merges into the
\* parent's array instead of a copy of it (C34 must not hold of it).
RECURSIVE MergeKeysInPlace(_, _, _, _, _)
MergeKeysInPlace(h, parentRegistry, own, result, i) ==
    IF i > Len(KeySeq) THEN h
    ELSE LET serviceKey == KeySeq[i]
             parentRegistrations == h.maps[parentRegistry][serviceKey]
             ownRegistrations == h.maps[own][serviceKey]
         IN  IF parentRegistrations = 0 /\ ownRegistrations = 0
             THEN MergeKeysInPlace(h, parentRegistry, own, result, i + 1)
             ELSE IF parentRegistrations = 0
             THEN MergeKeysInPlace([h EXCEPT !.maps[result][serviceKey] = ownRegistrations],
                                   parentRegistry, own, result, i + 1)
             ELSE IF ownRegistrations = 0
             THEN MergeKeysInPlace([h EXCEPT !.maps[result][serviceKey] =
                                                 parentRegistrations],
                                   parentRegistry, own, result, i + 1)
             ELSE MergeKeysInPlace([h EXCEPT !.lists[parentRegistrations] =
                                                 mergeRegistrations(h.regs, @,
                                                     h.lists[ownRegistrations]),
                                             !.maps[result][serviceKey] =
                                                 parentRegistrations],
                                   parentRegistry, own, result, i + 1)

RECURSIVE MergeKeys(_, _, _, _, _)
MergeKeys(h, parentRegistry, own, result, i) ==
    IF i > Len(KeySeq) THEN h
    ELSE LET serviceKey == KeySeq[i]
             parentRegistrations == h.maps[parentRegistry][serviceKey]
             ownRegistrations == h.maps[own][serviceKey]
         IN  IF parentRegistrations = 0 /\ ownRegistrations = 0
             THEN MergeKeys(h, parentRegistry, own, result, i + 1)
             ELSE IF parentRegistrations = 0
             THEN MergeKeys([h EXCEPT !.maps[result][serviceKey] = ownRegistrations],
                            parentRegistry, own, result, i + 1)
             ELSE IF ownRegistrations = 0
             THEN MergeKeys([h EXCEPT !.maps[result][serviceKey] = parentRegistrations],
                            parentRegistry, own, result, i + 1)
             ELSE MergeKeys([h EXCEPT !.lists = Append(@,
                                          mergeRegistrations(h.regs,
                                              h.lists[parentRegistrations],
                                              h.lists[ownRegistrations])),
                                      !.maps[result][serviceKey] = Len(h.lists) + 1],
                            parentRegistry, own, result, i + 1)

RECURSIVE getMergedRegistry(_, _)
getMergedRegistry(h, c) ==
    IF h.parent[c] = 0 THEN [h |-> h, map |-> h.registry[c]]
    ELSE LET p == getMergedRegistry(h, h.parent[c])
             result == Len(p.h.maps) + 1
             h1 == [p.h EXCEPT !.maps = Append(@, EmptyMap)]
         IN  [h |-> MergeKeys(h1, p.map, h.registry[c], result, 1),
              map |-> result]

\* The registration records a Map holds under a key, in order.
RegsOf(h, m, key) == IF h.maps[m][key] = 0 THEN <<>> ELSE h.lists[h.maps[m][key]]

\* The records container c sees under key through the merge.
MergedRegs(h, c, key) ==
    LET g == getMergedRegistry(h, c) IN RegsOf(g.h, g.map, key)

NamesOf(rg, list) == [i \in 1..Len(list) |-> rg[list[i]].name]

\* Container.getServiceNames
getServiceNames(h, c, key) == NamesOf(h.regs, MergedRegs(h, c, key))

(***************************************************************************)
(* Factories are caller code.  Every factory of the model resolves its     *)
(* `deps` in order through the context it is given, then builds its        *)
(* result: a new object holding the resolved dependencies ("new"), the     *)
(* number 0 ("falsy"), or a thrown value ("throw").  A factory with        *)
(* `delayed` dependencies builds its object first and passes one callback  *)
(* to context.delay() that resolves and assigns them.  `circ` marks a      *)
(* factory wrapped by circular().                                          *)
(***************************************************************************)
Dep(key, name) == [service |-> key, name |-> name]

Fn(deps, delayed, result, circ) ==
    [deps |-> deps, delayed |-> delayed, ret |-> result, circ |-> circ,
     early |-> FALSE, chained |-> <<>>, touches |-> FALSE, catches |-> FALSE]

\* A factory that reads a property of each dependency as soon as it has
\* resolved it.
FnTouching(deps) == [Fn(deps, <<>>, "new", FALSE) EXCEPT !.touches = TRUE]

\* A factory that makes its instance and calls delay() before it resolves
\* its dependencies.
FnDelayFirst(deps, delayed) == [Fn(deps, delayed, "new", FALSE) EXCEPT !.early = TRUE]

\* A factory whose delayed callback itself calls delay() with a second
\* callback, before it resolves its own targets.
FnChained(delayed, chained) == [Fn(<<>>, delayed, "new", FALSE) EXCEPT !.chained = chained]

\* A factory that resolves each dependency inside try/catch and goes on
\* without the ones that failed.
FnCatching(deps) == [Fn(deps, <<>>, "new", FALSE) EXCEPT !.catches = TRUE]

FactoryDefs == <<
    Fn(<<>>, <<>>, "new", FALSE),                                    \* 1
    Fn(<<>>, <<>>, "falsy", FALSE),                                  \* 2
    Fn(<<>>, <<>>, "throw", FALSE),                                  \* 3
    Fn(<<Dep("A", "default"), Dep("A", "default")>>, <<>>, "new", FALSE), \* 4
    Fn(<<Dep("B", "default")>>, <<>>, "new", FALSE),                 \* 5
    Fn(<<>>, <<Dep("B", "default")>>, "new", FALSE),                 \* 6
    Fn(<<>>, <<Dep("A", "default")>>, "new", FALSE),                 \* 7
    Fn(<<Dep("B", "default")>>, <<>>, "new", TRUE),                  \* 8
    Fn(<<Dep("A", "default")>>, <<>>, "new", TRUE),                  \* 9
    Fn(<<Dep("A", "default")>>, <<>>, "new", FALSE),                 \* 10
    FnDelayFirst(<<Dep("B", "default")>>, <<Dep("B", "default")>>),  \* 11
    FnChained(<<Dep("B", "default")>>, <<Dep("A", "default")>>),     \* 12
    Fn(<<>>, <<Dep("B", "default"), Dep("fnA", "default")>>, "new", FALSE), \* 13
    Fn(<<>>, <<Dep("A", "default"), Dep("fnA", "default")>>, "new", FALSE), \* 14
    Fn(<<>>, <<Dep("fnA", "default"), Dep("B", "default")>>, "new", FALSE), \* 15
    FnTouching(<<Dep("A", "default")>>),                                   \* 16
    Fn(<<Dep("B", "default"), Dep("fnA", "default")>>, <<>>, "new", TRUE), \* 17
    Fn(<<Dep("A", "default"), Dep("fnA", "default")>>, <<>>, "new", TRUE), \* 18
    Fn(<<Dep("A", "default"), Dep("B", "default")>>, <<>>, "new", TRUE),   \* 19
    Fn(<<Dep("A", "n1")>>, <<>>, "new", FALSE),                            \* 20
    Fn(<<Dep("fnA", "default")>>, <<>>, "new", FALSE),                     \* 21
    Fn(<<Dep("fnA2", "default")>>, <<>>, "new", FALSE),                    \* 22
    FnDelayFirst(<<Dep("B", "default")>>, <<Dep("fnA", "default")>>),      \* 23
    FnCatching(<<Dep("A", "default")>>)                                    \* 24
>>

Factories == 1..Len(FactoryDefs)

(***************************************************************************)
(* Values and errors travelling between frames.                            *)
(***************************************************************************)
NoErr == [type |-> "", stack |-> <<>>, cause |-> "", key |-> "", name |-> ""]
NoRet == [kind |-> "none", v |-> Undefined, vs |-> <<>>, err |-> NoErr]
Val(v) == [kind |-> "val", v |-> v, vs |-> <<>>, err |-> NoErr]
Vals(vs) == [kind |-> "val", v |-> Undefined, vs |-> vs, err |-> NoErr]
Exc(e) == [kind |-> "exc", v |-> Undefined, vs |-> <<>>, err |-> e]
Err(type) == [NoErr EXCEPT !.type = type]

\* new ServiceResolutionError(message naming key and name, getStack(), e)
ServiceResolutionError(key, name, stack, e) ==
    [type |-> "ServiceResolutionError", stack |-> stack, cause |-> e.type,
     key |-> key, name |-> name]

\* What a factory asked its context, and what it was told: q is the method
\* ("" for nothing asked yet), items the array getStack() returned, live
\* whether that array is the context's own, changed whether the factory has
\* modified it since.
NoAsk == [q |-> "", key |-> "", name |-> "", answer |-> FALSE, items |-> <<>>,
          live |-> FALSE, changed |-> FALSE]

Frame(k, ctx, key, name) ==
    [k |-> k, ctx |-> ctx, key |-> key, name |-> name, pc |-> "enter",
     reg |-> 0, f |-> 0, i |-> 0, acc |-> <<>>, obj |-> 0, val |-> Undefined,
     targets |-> <<>>, chained |-> <<>>, list |-> 0, src |-> "", denoted |-> 0,
     asked |-> NoAsk]

Top == callstack[Len(callstack)]
Running == callstack # <<>>
SetTop(fr) == [callstack EXCEPT ![Len(callstack)] = fr]
Pop == SubSeq(callstack, 1, Len(callstack) - 1)

\* The number of the root call in progress (or of the next one).
CurrentCall == Len(results) + 1

(***************************************************************************)
(* Context.findInResolved / Context.saveInResolved                         *)
(***************************************************************************)
RECURSIVE ResolvedIndex(_, _, _, _)
ResolvedIndex(resolved, key, name, i) ==
    IF i > Len(resolved) THEN 0
    ELSE IF resolved[i].key = key /\ resolved[i].name = name THEN i
    ELSE ResolvedIndex(resolved, key, name, i + 1)

\* A faulty variant of Context.findInResolved that never finds anything
\* (C23 must not hold of it).
findInResolvedNothing(resolved, key, name) == Undefined

findInResolved(resolved, key, name) ==
    LET named == ResolvedIndex(resolved, key, name, 1)
    IN  IF named # 0 /\ Truthy(resolved[named].service)
        THEN resolved[named].service
        ELSE Undefined

\* A faulty variant of Context.saveInResolved that stores nothing (C21 must
\* not hold of it).
saveInResolvedNowhere(resolved, key, service, name) == resolved

saveInResolved(resolved, key, service, name) ==
    LET existingNamed == ResolvedIndex(resolved, key, name, 1)
    IN  IF existingNamed # 0
        THEN [resolved EXCEPT ![existingNamed].service = service]
        ELSE Append(resolved, [key |-> key, name |-> name, service |-> service])

(***************************************************************************)
(* A faulty variant of Context.getServiceRegistration that falls back to   *)
(* the first registration of the key when the name is not found (C6 must   *)
(* not hold of it).                                                        *)
(***************************************************************************)
getServiceRegistrationOrFirst(m, key, name) ==
    LET registrations == maps[m][key]
    IN  IF registrations = 0 THEN [reg |-> 0, err |-> "RangeError"]
        ELSE LET i == IndexOfName(regs, lists[registrations], name)
             IN  IF i = 0
                 THEN IF lists[registrations] = <<>>
                      THEN [reg |-> 0, err |-> "RangeError"]
                      ELSE [reg |-> lists[registrations][1], err |-> ""]
                 ELSE [reg |-> lists[registrations][i], err |-> ""]

(***************************************************************************)
(* Context.getServiceRegistration: the record found, or the error thrown.  *)
(***************************************************************************)
getServiceRegistration(m, key, name) ==
    LET registrations == maps[m][key]
    IN  IF registrations = 0 THEN [reg |-> 0, err |-> "RangeError"]
        ELSE LET i == IndexOfName(regs, lists[registrations], name)
             IN  IF i = 0 THEN [reg |-> 0, err |-> "RangeError"]
                 ELSE [reg |-> lists[registrations][i], err |-> ""]

(***************************************************************************)
(* Context.checkForCircularDependency: TRUE when it throws.                *)
(***************************************************************************)
PathEntry(entry) == stringifyServiceKey(entry.service) \o "[" \o entry.name \o "]"

RECURSIVE IndexOf(_, _, _)
IndexOf(s, x, i) ==
    IF i > Len(s) THEN 0 ELSE IF s[i] = x THEN i ELSE IndexOf(s, x, i + 1)

\* A faulty variant of Context.checkForCircularDependency whose segment
\* starts after the first occurrence of the current entry, so that it is
\* empty when a service resolves itself (C26 as amended must not hold of it).
checkAfterFirstOccurrence(resolutionStack) ==
    IF resolutionStack = <<>> THEN FALSE
    ELSE LET all == [i \in 1..Len(resolutionStack) |-> PathEntry(resolutionStack[i])]
             resolutionStackPath == SubSeq(all, 1, Len(all) - 1)
             firstAppeared == IndexOf(resolutionStackPath, all[Len(all)], 1)
         IN  IF firstAppeared = 0 THEN FALSE
             ELSE LET substack == SubSeq(resolutionStackPath, firstAppeared + 1,
                                         Len(resolutionStackPath))
                      half == Len(substack) \div 2
                  IN  IF Len(substack) % 2 # 0 THEN FALSE
                      ELSE \A i \in 1..half : substack[half + i] = substack[i]

\* A faulty variant of Context.checkForCircularDependency that declares a
\* cycle whenever the current entry is on the path already (C24 must not
\* hold of it).
checkForAnyRepetition(resolutionStack) ==
    IF resolutionStack = <<>> THEN FALSE
    ELSE LET all == [i \in 1..Len(resolutionStack) |-> PathEntry(resolutionStack[i])]
         IN  IndexOf(SubSeq(all, 1, Len(all) - 1), all[Len(all)], 1) # 0

checkForCircularDependency(resolutionStack) ==
    IF resolutionStack = <<>> THEN FALSE
    ELSE LET all == [i \in 1..Len(resolutionStack) |-> PathEntry(resolutionStack[i])]
             current == all[Len(all)]
             resolutionStackPath == SubSeq(all, 1, Len(all) - 1)
             firstAppeared == IndexOf(resolutionStackPath, current, 1)
         IN  IF firstAppeared = 0 THEN FALSE
             ELSE LET substack == SubSeq(resolutionStackPath, firstAppeared,
                                         Len(resolutionStackPath))
                      half == Len(substack) \div 2
                  IN  IF Len(substack) % 2 # 0 THEN FALSE
                      ELSE \A i \in 1..half : substack[half + i] = substack[i]

(***************************************************************************)
(* Leaving a frame: the value or exception goes to the caller; when the    *)
(* root frame is left the outcome of the root call is recorded.            *)
(***************************************************************************)
Return(r) ==
    /\ callstack' = Pop
    /\ IF Len(callstack) = 1
       THEN /\ ret' = NoRet
            /\ results' = Append(results,
                   [op |-> Top.k, ctx |-> Top.ctx, key |-> Top.key, name |-> Top.name,
                    obj |-> Top.obj, kind |-> r.kind, v |-> r.v, vs |-> r.vs,
                    err |-> r.err])
       ELSE /\ ret' = r
            /\ UNCHANGED results

\* Calling into a new frame.
Call(caller, callee) ==
    /\ Len(callstack) < MaxDepth
    /\ callstack' = Append(SetTop(caller), callee)
    /\ ret' = NoRet
    /\ UNCHANGED results

(***************************************************************************)
(* Context.resolve, first part: push on the resolution stack, doResolve    *)
(* up to the call of the factory (resolveRegistered,                       *)
(* resolveWithErrorHandling).                                              *)
(***************************************************************************)
\* A faulty variant of the finally clause of Context.resolve that leaves the
\* entry on the stack (C28 must not hold of it).
popStackSkipped(cx) == cx

\* this.resolutionStack.pop() in the finally clause of Context.resolve.
popStack(cx) ==
    [cx EXCEPT !.resolutionStack = SubSeq(@, 1, Len(@) - 1)]

ResolveEnter ==
    /\ Running /\ Top.k = "resolve" /\ Top.pc = "enter" /\ ret.kind = "none"
    /\ LET c == Top.ctx
           cx == ctxs[c]
           key == Top.key
           name == Top.name
           pushed == Append(cx.resolutionStack, Dep(key, name))
           alreadyResolved == findInResolved(cx.resolved, key, name)
           found == getServiceRegistration(cx.registry, key, name)
           registration == regs[found.reg]
       IN  IF alreadyResolved # Undefined
           THEN /\ ctxs' = [ctxs EXCEPT ![c].resolutionStack = pushed]
                /\ callstack' = SetTop([Top EXCEPT !.pc = "drain", !.val = alreadyResolved,
                                                   !.src = "resolved",
                                                   !.denoted = found.reg])
                /\ UNCHANGED <<ret, results, objs, invoked>>
           ELSE IF found.err # ""
           THEN /\ Return(Exc(Err(found.err)))
                /\ UNCHANGED <<ctxs, objs, invoked>>
           ELSE IF Truthy(registration.instance)
           THEN /\ ctxs' = [ctxs EXCEPT ![c].resolutionStack = pushed]
                /\ callstack' = SetTop([Top EXCEPT !.pc = "drain",
                                                   !.val = registration.instance,
                                                   !.reg = found.reg,
                                                   !.src = "instance",
                                                   !.denoted = found.reg])
                /\ UNCHANGED <<ret, results, objs, invoked>>
           ELSE IF registration.factory = 0
           THEN /\ Return(Exc(Err("TypeError")))
                /\ UNCHANGED <<ctxs, objs, invoked>>
           ELSE IF checkForCircularDependency(pushed)
           THEN /\ Return(Exc(ServiceResolutionError(key, name, pushed, Err("Error"))))
                /\ UNCHANGED <<ctxs, objs, invoked>>
           ELSE /\ ctxs' = [ctxs EXCEPT ![c].resolutionStack = pushed]
                /\ invoked' = Append(invoked,
                       [reg |-> found.reg, ctx |-> c, key |-> key, name |-> name,
                        f |-> registration.factory, call |-> CurrentCall])
                /\ IF FactoryDefs[registration.factory].circ
                   THEN \* the wrapper made by circular() returns a stand-in at once
                        /\ objs' = Append(objs,
                               [kind |-> "proxy", f |-> registration.factory, ctx |-> c,
                                fields |-> <<>>, real |-> Undefined, call |-> CurrentCall])
                        /\ callstack' = SetTop([Top EXCEPT !.pc = "factory",
                                                           !.reg = found.reg,
                                                           !.src = "factory",
                                                           !.denoted = found.reg])
                        /\ ret' = Val(Len(objs) + 1)
                        /\ UNCHANGED results
                   ELSE /\ Call([Top EXCEPT !.pc = "factory", !.reg = found.reg,
                                             !.src = "factory", !.denoted = found.reg],
                                [Frame("factory", c, key, name) EXCEPT
                                     !.f = registration.factory])
                        /\ UNCHANGED objs
    /\ UNCHANGED <<parent, registry, snapshots, maps, lists, regs, handed, lastOp>>

(***************************************************************************)
(* Context.resolveRegistered after the factory returned, and the catch     *)
(* clause of resolveWithErrorHandling with the finally of resolve.         *)
(***************************************************************************)
ResolveAfterFactory ==
    /\ Running /\ Top.k = "resolve" /\ Top.pc = "factory" /\ ret.kind # "none"
    /\ LET c == Top.ctx
           cx == ctxs[c]
           registration == regs[Top.reg]
           instance == ret.v
       IN  IF ret.kind = "exc"
           THEN /\ Return(IF ret.err.type = "ServiceResolutionError" THEN ret
                          ELSE Exc(ServiceResolutionError(Top.key, Top.name,
                                       cx.resolutionStack, ret.err)))
                /\ ctxs' = [ctxs EXCEPT ![c] = popStack(cx)]
                /\ UNCHANGED regs
           ELSE /\ ctxs' = IF registration.lifecycle \in {"singleton", "request"}
                           THEN [ctxs EXCEPT ![c].resolved =
                                     saveInResolved(@, Top.key, instance, Top.name)]
                           ELSE ctxs
                /\ regs' = IF registration.lifecycle = "singleton"
                           THEN [regs EXCEPT ![Top.reg].instance = instance]
                           ELSE regs
                /\ callstack' = SetTop([Top EXCEPT !.pc = "drain", !.val = instance])
                /\ ret' = NoRet
                /\ UNCHANGED results
    /\ UNCHANGED <<parent, registry, snapshots, maps, lists, objs, invoked, handed, lastOp>>

(***************************************************************************)
(* Context.executeDelayed inside Context.resolve, then `return service`    *)
(* and the finally clause.                                                 *)
(***************************************************************************)
\* A faulty variant of Array.shift as Context.executeDelayed uses it, taking
\* the newest callback (C20 must not hold of it).
shiftNewest(queue) ==
    [callback |-> queue[Len(queue)], rest |-> SubSeq(queue, 1, Len(queue) - 1)]

\* delayedCallbacksQueue.shift() on a non-empty queue.
shift(queue) == [callback |-> queue[1], rest |-> Tail(queue)]

ResolveDrain ==
    /\ Running /\ Top.k = "resolve" /\ Top.pc = "drain"
    /\ LET c == Top.ctx
           cx == ctxs[c]
           queue == cx.delayedCallbacksQueue
       IN  IF ret.kind = "exc"
           THEN /\ Return(ret)
                /\ ctxs' = [ctxs EXCEPT ![c] = popStack(cx)]
                /\ UNCHANGED handed
           ELSE IF queue = <<>>
           THEN /\ Return(Val(Top.val))
                /\ ctxs' = [ctxs EXCEPT ![c] = popStack(cx)]
                /\ handed' = Append(handed,
                       [ctx |-> c, key |-> Top.key, name |-> Top.name, v |-> Top.val,
                        reg |-> Top.reg, call |-> CurrentCall, src |-> Top.src,
                        denoted |-> Top.denoted])
           ELSE /\ Call(Top, [Frame("callback", c, Top.key, Top.name) EXCEPT
                                  !.obj = shift(queue).callback.obj,
                                  !.targets = shift(queue).callback.targets,
                                  !.chained = shift(queue).callback.chained])
                /\ ctxs' = [ctxs EXCEPT ![c].delayedCallbacksQueue = shift(queue).rest]
                /\ UNCHANGED handed
    /\ UNCHANGED <<parent, registry, snapshots, maps, lists, regs, objs, invoked, lastOp>>

(***************************************************************************)
(* A factory function running: it resolves its next dependency or builds   *)
(* and returns its result.                                                 *)
(***************************************************************************)
FactoryStep ==
    /\ Running /\ Top.k = "factory"
    /\ LET def == FactoryDefs[Top.f]
           c == Top.ctx
           acc == IF ret.kind = "val" THEN Append(Top.acc, ret.v)
                  ELSE IF ret.kind = "exc" THEN Append(Top.acc, Undefined)
                  ELSE Top.acc
           o == Len(objs) + 1
       IN  IF ret.kind = "exc" /\ ~def.catches
           THEN /\ Return(ret)
                /\ UNCHANGED <<objs, ctxs>>
           ELSE IF Top.pc = "touch"
           THEN \* the property read on the dependency is done
                /\ callstack' = SetTop([Top EXCEPT !.pc = "enter"])
                /\ ret' = NoRet
                /\ UNCHANGED <<results, objs, ctxs>>
           ELSE IF /\ def.touches /\ ret.kind = "val" /\ ret.v > 0
                   /\ objs[ret.v].kind = "proxy" /\ ~Truthy(objs[ret.v].real)
           THEN \* the property read goes to the stand-in's get trap, whose
                \* getService() calls the inner factory (circular.ts:17-22)
                /\ Len(callstack) + 1 < MaxDepth
                /\ callstack' =
                       SetTop([Top EXCEPT !.acc = acc, !.pc = "touch"]) \o
                       <<[Frame("force", objs[ret.v].ctx, "A", "") EXCEPT !.obj = ret.v],
                         [Frame("factory", objs[ret.v].ctx, "A", "") EXCEPT
                              !.f = objs[ret.v].f]>>
                /\ ret' = NoRet
                /\ UNCHANGED <<results, objs, ctxs>>
           ELSE IF Top.i < Len(def.deps)
           THEN LET first == def.early /\ Top.i = 0
                IN  /\ Call([Top EXCEPT !.i = @ + 1, !.acc = acc,
                                        !.obj = IF first THEN o ELSE @],
                            Frame("resolve", c, def.deps[Top.i + 1].service,
                                  def.deps[Top.i + 1].name))
                    \* the instance is made and delay() is called before the
                    \* first dependency is resolved
                    /\ objs' = IF first
                               THEN Append(objs,
                                        [kind |-> "plain", f |-> Top.f, ctx |-> c,
                                         fields |-> <<>>, real |-> Undefined,
                                         call |-> CurrentCall])
                               ELSE objs
                    /\ ctxs' = IF first
                               THEN [ctxs EXCEPT ![c].delayedCallbacksQueue =
                                         Append(@, [obj |-> o, targets |-> def.delayed,
                                                    chained |-> def.chained])]
                               ELSE ctxs
           ELSE IF def.ret = "new" /\ Top.obj # 0
           THEN /\ objs' = [objs EXCEPT ![Top.obj].fields = @ \o acc]
                /\ Return(Val(Top.obj))
                /\ UNCHANGED ctxs
           ELSE IF def.ret = "new"
           THEN /\ objs' = Append(objs,
                       [kind |-> "plain", f |-> Top.f, ctx |-> c, fields |-> acc,
                        real |-> Undefined, call |-> CurrentCall])
                /\ ctxs' = IF def.delayed = <<>> THEN ctxs
                           ELSE [ctxs EXCEPT ![c].delayedCallbacksQueue =
                                     Append(@, [obj |-> o, targets |-> def.delayed,
                                                chained |-> def.chained])]
                /\ Return(Val(o))
           ELSE /\ Return(IF def.ret = "falsy" THEN Val(NumZero) ELSE Exc(Err("thrown")))
                /\ UNCHANGED <<objs, ctxs>>
    /\ UNCHANGED <<parent, registry, snapshots, maps, lists, regs, invoked, handed, lastOp>>

(***************************************************************************)
(* A callback passed to context.delay() running: it resolves its targets   *)
(* in order and assigns each to a field of the object it closes over.      *)
(***************************************************************************)
CallbackStep ==
    /\ Running /\ Top.k = "callback"
    /\ IF ret.kind = "exc"
       THEN /\ Return(ret)
            /\ UNCHANGED <<objs, ctxs>>
       ELSE /\ objs' = IF ret.kind = "val"
                       THEN [objs EXCEPT ![Top.obj].fields = Append(@, ret.v)]
                       ELSE objs
            \* the callback calls delay() before it resolves anything
            /\ ctxs' = IF Top.i = 0 /\ ret.kind = "none" /\ Top.chained # <<>>
                       THEN [ctxs EXCEPT ![Top.ctx].delayedCallbacksQueue =
                                 Append(@, [obj |-> Top.obj, targets |-> Top.chained,
                                            chained |-> <<>>])]
                       ELSE ctxs
            /\ IF Top.i < Len(Top.targets)
               THEN Call([Top EXCEPT !.i = @ + 1],
                         Frame("resolve", Top.ctx, Top.targets[Top.i + 1].service,
                               Top.targets[Top.i + 1].name))
               ELSE Return(Val(Undefined))
    /\ UNCHANGED <<parent, registry, snapshots, maps, lists, regs, invoked,
                   handed, lastOp>>

(***************************************************************************)
(* Context.resolveAll and Context.resolveTuple: Array.map over the         *)
(* registrations of the key, or over the requested tokens.                 *)
(***************************************************************************)
ResolveAllStep ==
    /\ Running /\ Top.k = "resolveAll"
    /\ LET acc == IF ret.kind = "val" THEN Append(Top.acc, ret.v) ELSE Top.acc
           registrations == lists[Top.list]
       IN  IF ret.kind = "exc" THEN Return(ret)
           ELSE IF Top.i < Top.val /\ Top.i < Len(registrations)
           THEN Call([Top EXCEPT !.i = @ + 1, !.acc = acc],
                     Frame("resolve", Top.ctx, Top.key,
                           regs[registrations[Top.i + 1]].name))
           ELSE Return(Vals(acc))
    /\ UNCHANGED <<parent, registry, snapshots, maps, lists, regs, objs, ctxs, invoked,
                   handed, lastOp>>

ResolveTupleStep ==
    /\ Running /\ Top.k = "resolveTuple"
    /\ LET acc == IF ret.kind = "val" THEN Append(Top.acc, ret.v) ELSE Top.acc
       IN  IF ret.kind = "exc" THEN Return(ret)
           ELSE IF Top.i < Len(Top.targets)
           THEN Call([Top EXCEPT !.i = @ + 1, !.acc = acc],
                     Frame("resolve", Top.ctx, Top.targets[Top.i + 1].service,
                           Top.targets[Top.i + 1].name))
           ELSE Return(Vals(acc))
    /\ UNCHANGED <<parent, registry, snapshots, maps, lists, regs, objs, ctxs, invoked,
                   handed, lastOp>>

(***************************************************************************)
(* getService() of a stand-in made by circular(): the inner factory has    *)
(* returned; its result becomes the stand-in's instance.                   *)
(***************************************************************************)
ForceStep ==
    /\ Running /\ Top.k = "force" /\ ret.kind # "none"
    /\ IF ret.kind = "exc"
       THEN /\ Return(ret)
            /\ UNCHANGED objs
       ELSE /\ objs' = [objs EXCEPT ![Top.obj].real = ret.v]
            /\ Return(Val(ret.v))
    /\ UNCHANGED <<parent, registry, snapshots, maps, lists, regs, ctxs, invoked,
                   handed, lastOp>>

(***************************************************************************)
(* What the caller can observe of the containers: for every container its  *)
(* own registrations and those of its snapshots, record by record.         *)
(***************************************************************************)
Records(h, m) ==
    [key \in ServiceKeys |->
        LET list == RegsOf(h, m, key) IN [i \in 1..Len(list) |-> h.regs[list[i]]]]

OwnView(h, c) == Records(h, h.registry[c])

SnapshotView(h, c) ==
    [i \in 1..Len(h.snapshots[c]) |-> Records(h, h.snapshots[c][i])]

View(h) ==
    [c \in 1..Len(h.parent) |->
        [parent |-> h.parent[c], own |-> OwnView(h, c), snapshots |-> SnapshotView(h, c)]]

NoOp == [seq |-> 0, op |-> "", c |-> 0, key |-> "", name |-> "", err |-> "",
         replace |-> FALSE, had |-> FALSE, hadOwn |-> FALSE, changes |-> 0,
         service |-> Undefined, factory |-> 0, lifecycle |-> ""]

Op(op, c, key, name, err, replace) ==
    [seq |-> lastOp.seq + 1, op |-> op, c |-> c, key |-> key, name |-> name,
     err |-> err, replace |-> replace,
     had |-> has(H, c, key, name), hadOwn |-> hasOwn(H, c, key, name),
     changes |-> IF op \in {"resolve", "resolveAll", "resolveTuple", "force"}
                 THEN lastOp.changes ELSE lastOp.changes + 1,
     service |-> Undefined, factory |-> 0, lifecycle |-> ""]

Options(name, lifecycle, replace) ==
    [name |-> name, lifecycle |-> lifecycle, replace |-> replace]

Idle == ~Running

(***************************************************************************)
(* Container.registerConstant / Container.registerFactory                  *)
(***************************************************************************)
RegisterConstant(c, key, service, name, replace) ==
    /\ Idle
    /\ LET r == registerConstantOrFactory(H, c, key, service, FALSE,
                                          Options(name, "", replace))
       IN  /\ SetH(r.h)
           /\ lastOp' = [Op("registerConstant", c, key,
                              IF name = "" THEN "default" ELSE name, r.err, replace)
                           EXCEPT !.service = service]
    /\ UNCHANGED <<objs, ctxs, callstack, ret, results, invoked, handed>>

RegisterFactory(c, key, factory, lifecycle, name, replace) ==
    /\ Idle
    /\ LET r == registerConstantOrFactory(H, c, key, factory, TRUE,
                                          Options(name, lifecycle, replace))
       IN  /\ SetH(r.h)
           /\ lastOp' = [Op("registerFactory", c, key,
                              IF name = "" THEN "default" ELSE name, r.err, replace)
                           EXCEPT !.factory = factory, !.lifecycle = lifecycle]
    /\ UNCHANGED <<objs, ctxs, callstack, ret, results, invoked, handed>>

(***************************************************************************)
(* Container.unregister                                                    *)
(***************************************************************************)
Unregister(c, key, name, cascade) ==
    /\ Idle
    /\ SetH(unregister(H, c, key, name, cascade))
    /\ lastOp' = Op("unregister", c, key, name, "", cascade)
    /\ UNCHANGED <<objs, ctxs, callstack, ret, results, invoked, handed>>

(***************************************************************************)
(* Container.createChild                                                   *)
(***************************************************************************)
CreateChild(c) ==
    /\ Idle
    /\ Len(parent) < MaxContainers
    /\ parent' = Append(parent, c)
    /\ maps' = Append(maps, EmptyMap)
    /\ registry' = Append(registry, Len(maps) + 1)
    /\ snapshots' = Append(snapshots, <<>>)
    /\ lastOp' = Op("createChild", c, "A", "", "", FALSE)
    /\ UNCHANGED <<lists, regs, objs, ctxs, callstack, ret, results, invoked, handed>>

(***************************************************************************)
(* Container.backup / Container.restore                                    *)
(***************************************************************************)
Backup(c, cascade) ==
    /\ Idle
    /\ SetH(backup(H, c, cascade))
    /\ lastOp' = Op("backup", c, "A", "", "", cascade)
    /\ UNCHANGED <<objs, ctxs, callstack, ret, results, invoked, handed>>

Restore(c, cascade) ==
    /\ Idle
    /\ SetH(restore(H, c, cascade))
    /\ lastOp' = Op("restore", c, "A", "", "", cascade)
    /\ UNCHANGED <<objs, ctxs, callstack, ret, results, invoked, handed>>

(***************************************************************************)
(* Container.resolve / resolveAll / resolveTuple: a new Context over the   *)
(* merged registry, and the call of the Context's method.                  *)
(***************************************************************************)
NewContext(m, c) ==
    [registry |-> m, resolved |-> <<>>, resolutionStack |-> <<>>,
     delayedCallbacksQueue |-> <<>>, container |-> c, call |-> CurrentCall]

RootResolve(c, key, name) ==
    /\ Idle
    /\ LET g == getMergedRegistry(H, c)
       IN  /\ SetH(g.h)
           /\ ctxs' = Append(ctxs, NewContext(g.map, c))
           /\ callstack' = <<Frame("resolve", Len(ctxs) + 1, key,
                                   IF name = "" THEN "default" ELSE name)>>
    /\ lastOp' = Op("resolve", c, key, IF name = "" THEN "default" ELSE name, "", FALSE)
    /\ UNCHANGED <<objs, ret, results, invoked, handed>>

RootResolveAll(c, key) ==
    /\ Idle
    /\ LET g == getMergedRegistry(H, c)
           registrations == g.h.maps[g.map][key]
       IN  /\ SetH(g.h)
           /\ ctxs' = Append(ctxs, NewContext(g.map, c))
           /\ callstack' = <<[Frame("resolveAll", Len(ctxs) + 1, key, "") EXCEPT
                                  !.list = registrations,
                                  !.val = IF registrations = 0 THEN 0
                                          ELSE Len(g.h.lists[registrations])]>>
    /\ lastOp' = Op("resolveAll", c, key, "", "", FALSE)
    /\ UNCHANGED <<objs, ret, results, invoked, handed>>

RootResolveTuple(c, services) ==
    /\ Idle
    /\ LET g == getMergedRegistry(H, c)
       IN  /\ SetH(g.h)
           /\ ctxs' = Append(ctxs, NewContext(g.map, c))
           /\ callstack' = <<[Frame("resolveTuple", Len(ctxs) + 1, "A", "") EXCEPT
                                  !.targets = services]>>
    /\ lastOp' = Op("resolveTuple", c, "A", "", "", FALSE)
    /\ UNCHANGED <<objs, ret, results, invoked, handed>>

(***************************************************************************)
(* The caller uses a stand-in made by circular() for the first time: any   *)
(* forwarded operation calls getService(), which calls the inner factory   *)
(* with the context the stand-in closes over.                              *)
(***************************************************************************)
ForceProxy(o) ==
    /\ Idle
    /\ o \in 1..Len(objs)
    /\ objs[o].kind = "proxy"
    /\ ~Truthy(objs[o].real)
    /\ callstack' = <<[Frame("force", objs[o].ctx, "A", "") EXCEPT !.obj = o],
                      [Frame("factory", objs[o].ctx, "A", "") EXCEPT !.f = objs[o].f]>>
    /\ lastOp' = Op("force", ctxs[objs[o].ctx].container, "A", "", "", FALSE)
    /\ UNCHANGED <<parent, registry, snapshots, maps, lists, regs, objs, ctxs, ret,
                   results, invoked, handed>>

InitWith(parents) ==
    /\ parent = parents
    /\ registry = [c \in 1..Len(parents) |-> c]
    /\ snapshots = [c \in 1..Len(parents) |-> <<>>]
    /\ maps = [c \in 1..Len(parents) |-> EmptyMap]
    /\ lists = <<>>
    /\ regs = <<>>
    /\ objs = <<>>
    /\ ctxs = <<>>
    /\ callstack = <<>>
    /\ ret = NoRet
    /\ results = <<>>
    /\ invoked = <<>>
    /\ handed = <<>>
    /\ lastOp = NoOp

\* One container, just constructed.
Init == InitWith(<<0>>)

(***************************************************************************)
(* Lifecycles on one container: constants, factories of every lifecycle,   *)
(* backup, and root calls.                                                 *)
(***************************************************************************)
LifeMaxOps == 3
LifeMaxCalls == 2

OpsDone == lastOp.changes
CallsDone == Len(results)

LifeRegister ==
    \/ \E factory \in {1, 2}, lifecycle \in {"", "singleton", "request"} :
           RegisterFactory(1, "A", factory, lifecycle, "", FALSE)
    \/ \E lifecycle \in {"", "singleton"} :
           RegisterFactory(1, "B", 4, lifecycle, "", FALSE)
    \/ \E service \in {ExtObject1, NumZero, Null} :
           RegisterConstant(1, "A", service, "", FALSE)

LifeCall ==
    \/ \E key \in {"A", "B"} : RootResolve(1, key, "")
    \/ RootResolveTuple(1, <<Dep("A", "default"), Dep("A", "default")>>)
    \/ RootResolveAll(1, "A")

StepLife ==
    \/ ResolveEnter
    \/ ResolveAfterFactory
    \/ ResolveDrain
    \/ FactoryStep
    \/ ResolveAllStep
    \/ ResolveTupleStep

NextLife ==
    \/ StepLife
    \/ OpsDone < LifeMaxOps /\ LifeRegister
    \/ OpsDone < LifeMaxOps /\ Backup(1, FALSE)
    \/ CallsDone < LifeMaxCalls /\ LifeCall

SpecLife == Init /\ [][NextLife]_vars

(***************************************************************************)
(* Stand-ins made by circular() and used after the root call that made     *)
(* them, on one container whose registrations are replaced in between.     *)
(***************************************************************************)
StaleMaxOps == 3
StaleMaxCalls == 3

StaleRegister ==
    \/ RegisterFactory(1, "A", 8, "singleton", "", FALSE)
    \/ \E lifecycle \in {"", "request"}, replace \in BOOLEAN :
           RegisterFactory(1, "B", 1, lifecycle, "", replace)

StaleCall ==
    \/ \E key \in {"A", "B"} : RootResolve(1, key, "")
    \/ RootResolveTuple(1, <<Dep("A", "default"), Dep("B", "default")>>)
    \/ \E o \in DOMAIN objs : ForceProxy(o)

StepStale ==
    \/ ResolveEnter
    \/ ResolveAfterFactory
    \/ ResolveDrain
    \/ FactoryStep
    \/ ResolveTupleStep
    \/ ForceStep

NextStale ==
    \/ StepStale
    \/ OpsDone < StaleMaxOps /\ StaleRegister
    \/ CallsDone < StaleMaxCalls /\ StaleCall

SpecStale == Init /\ [][NextStale]_vars

(***************************************************************************)
(* Registering over existing registrations: a root container and a child   *)
(* made by createChild(), both just constructed.  The root registers       *)
(* constants and factories under two names, with and without replace; the  *)
(* child registers constants under the same names.                         *)
(***************************************************************************)
RegMaxOps == 3
RegMaxCalls == 2

\* The constant container c registers: one distinct object per container.
ConstOf(c) == IF c = 1 THEN ExtObject1 ELSE IF c = 2 THEN ExtObject2 ELSE TruthyString

InitPair == InitWith(<<0, 1>>)

RegRegister ==
    \/ \E name \in {"", "n1"}, replace \in BOOLEAN :
           RegisterConstant(1, "A", ConstOf(1), name, replace)
    \/ \E name \in {"", "n1"}, lifecycle \in {"", "singleton"}, replace \in BOOLEAN :
           RegisterFactory(1, "A", 1, lifecycle, name, replace)
    \/ \E name \in {"", "n1"} : RegisterConstant(2, "A", ConstOf(2), name, FALSE)

RegCall == RootResolve(1, "A", "")

StepReg ==
    \/ ResolveEnter
    \/ ResolveAfterFactory
    \/ ResolveDrain
    \/ FactoryStep

NextReg ==
    \/ StepReg
    \/ OpsDone < RegMaxOps /\ RegRegister
    \/ CallsDone < RegMaxCalls /\ RegCall

SpecReg == InitPair /\ [][NextReg]_vars

(***************************************************************************)
(* Hierarchies: one root container; children and grandchildren are made    *)
(* by createChild(); every container registers and unregisters under two   *)
(* names and resolves them.                                                *)
(***************************************************************************)
\* Container operations and root calls together.
HierMaxOps == 5

HierRegister ==
    \/ \E c \in Containers, name \in {"", "n1"} :
           RegisterConstant(c, "A", ConstOf(c), name, FALSE)
    \/ \E c \in Containers, name \in {"", "n1"} :
           RegisterFactory(c, "A", 1, "singleton", name, FALSE)

HierUnregister ==
    \E c \in Containers :
        \/ Unregister(c, "A", "", FALSE)
        \/ Unregister(c, "A", "default", TRUE)

HierCall == \E c \in Containers, name \in {"", "n1"} : RootResolve(c, "A", name)

NextHier ==
    \/ StepReg
    \/ OpsDone + CallsDone < HierMaxOps /\ HierRegister
    \/ OpsDone + CallsDone < HierMaxOps /\ HierUnregister
    \/ OpsDone + CallsDone < HierMaxOps /\ \E c \in Containers : CreateChild(c)
    \/ OpsDone + CallsDone < HierMaxOps /\ HierCall

SpecHier == Init /\ [][NextHier]_vars

(***************************************************************************)
(* Merged views: a root container, its child and the child's child, made   *)
(* by createChild() and just constructed; each registers constants under   *)
(* three names, and resolveAll() lists what a container sees.              *)
(***************************************************************************)
\* Registrations and root calls together.
MergeMaxOps == 4

InitChain == InitWith(<<0, 1, 2>>)

MergeRegister ==
    \E c \in Containers, name \in {"", "n1", "n2"} :
        RegisterConstant(c, "A", ConstOf(c), name, FALSE)

MergeCall == \E c \in Containers : RootResolveAll(c, "A")

StepMerge ==
    \/ ResolveEnter
    \/ ResolveDrain
    \/ ResolveAllStep

NextMerge ==
    \/ StepMerge
    \/ OpsDone + CallsDone < MergeMaxOps /\ MergeRegister
    \/ OpsDone + CallsDone < MergeMaxOps /\ MergeCall

SpecMerge == InitChain /\ [][NextMerge]_vars

(***************************************************************************)
(* Unregistering on one container: constants under three names of one key  *)
(* and one name of another key, removed by key or by key and name.         *)
(***************************************************************************)
UnregMaxOps == 5

UnregRegister ==
    \/ \E name \in {"", "n1", "n2"} : RegisterConstant(1, "A", ConstOf(1), name, FALSE)
    \/ RegisterConstant(1, "B", ConstOf(2), "", FALSE)

UnregUnregister ==
    \E key \in {"A", "B"}, name \in {"", "default", "n1", "n2"} :
        Unregister(1, key, name, FALSE)

NextUnreg ==
    \/ OpsDone < UnregMaxOps /\ UnregRegister
    \/ OpsDone < UnregMaxOps /\ UnregUnregister

SpecUnreg == Init /\ [][NextUnreg]_vars

(***************************************************************************)
(* Unregistering along a chain: a root container, its child and the        *)
(* child's child, just constructed; each registers constants under two     *)
(* names, unregisters by key or by key and name, with and without          *)
(* cascade, and resolves the default name.                                 *)
(***************************************************************************)
\* Container operations and root calls together.
CascadeMaxOps == 4

CascadeRegister ==
    \E c \in Containers, name \in {"", "n1"} :
        RegisterConstant(c, "A", ConstOf(c), name, FALSE)

CascadeUnregister ==
    \E c \in Containers, name \in {"", "default"}, cascade \in BOOLEAN :
        Unregister(c, "A", name, cascade)

CascadeCall == \E c \in Containers : RootResolve(c, "A", "")

StepCascade ==
    \/ ResolveEnter
    \/ ResolveDrain

NextCascade ==
    \/ StepCascade
    \/ OpsDone + CallsDone < CascadeMaxOps /\ CascadeRegister
    \/ OpsDone + CallsDone < CascadeMaxOps /\ CascadeUnregister
    \/ OpsDone + CallsDone < CascadeMaxOps /\ CascadeCall

SpecCascade == InitChain /\ [][NextCascade]_vars

(***************************************************************************)
(* Snapshots of one container: constants under two names and a singleton   *)
(* factory are registered, replaced and unregistered between backups and   *)
(* restores, which may nest, and the default name is resolved.             *)
(***************************************************************************)
\* Container operations and root calls together.
BackupMaxOps == 6

BackupRegister ==
    \/ \E name \in {"", "n1"}, replace \in BOOLEAN :
           RegisterConstant(1, "A", IF replace THEN ConstOf(2) ELSE ConstOf(1),
                            name, replace)
    \/ \E replace \in BOOLEAN : RegisterFactory(1, "A", 1, "singleton", "", replace)

NextBackup ==
    \/ StepReg
    \/ OpsDone + CallsDone < BackupMaxOps /\ BackupRegister
    \/ OpsDone + CallsDone < BackupMaxOps /\ Unregister(1, "A", "default", FALSE)
    \/ OpsDone + CallsDone < BackupMaxOps /\ Backup(1, FALSE)
    \/ OpsDone + CallsDone < BackupMaxOps /\ Restore(1, FALSE)
    \/ OpsDone + CallsDone < BackupMaxOps /\ RootResolve(1, "A", "")

SpecBackup == Init /\ [][NextBackup]_vars

(***************************************************************************)
(* Snapshots and stand-ins: A is a singleton made by a circular() factory  *)
(* that needs B, B is a singleton; the container is backed up and restored *)
(* around root resolves and the first use of a stand-in.                   *)
(***************************************************************************)
\* Container operations and root calls together.
SnapMaxOps == 7

SnapRegister ==
    \/ RegisterFactory(1, "A", 8, "singleton", "", FALSE)
    \/ RegisterFactory(1, "B", 1, "singleton", "", FALSE)

SnapCall ==
    \/ \E key \in {"A", "B"} : RootResolve(1, key, "")
    \/ \E o \in DOMAIN objs : ForceProxy(o)

StepSnap ==
    \/ ResolveEnter
    \/ ResolveAfterFactory
    \/ ResolveDrain
    \/ FactoryStep
    \/ ForceStep

NextSnap ==
    \/ StepSnap
    \/ OpsDone + CallsDone < SnapMaxOps /\ SnapRegister
    \/ OpsDone + CallsDone < SnapMaxOps /\ Backup(1, FALSE)
    \/ OpsDone + CallsDone < SnapMaxOps /\ Restore(1, FALSE)
    \/ OpsDone + CallsDone < SnapMaxOps /\ SnapCall

SpecSnap == Init /\ [][NextSnap]_vars

(***************************************************************************)
(* Snapshots in a chain of three containers: constants are registered on   *)
(* any container between backups and restores with and without cascade.    *)
(***************************************************************************)
\* Container operations and root calls together.
ChainSnapMaxOps == 4

ChainSnapRegister ==
    \E c \in Containers : RegisterConstant(c, "A", ConstOf(c), "", FALSE)

NextChainSnap ==
    \/ StepCascade
    \/ OpsDone + CallsDone < ChainSnapMaxOps /\ ChainSnapRegister
    \/ OpsDone + CallsDone < ChainSnapMaxOps
           /\ \E c \in Containers, cascade \in BOOLEAN : Backup(c, cascade)
    \/ OpsDone + CallsDone < ChainSnapMaxOps
           /\ \E c \in Containers, cascade \in BOOLEAN : Restore(c, cascade)
    \/ OpsDone + CallsDone < ChainSnapMaxOps /\ CascadeCall

SpecChainSnap == InitChain /\ [][NextChainSnap]_vars

(***************************************************************************)
(* A singleton of the parent seen by its child: the root registers a       *)
(* singleton factory returning a new object or a falsy value under the     *)
(* default name, the child registers a constant under another name of the  *)
(* same key, and both resolve the default name.                            *)
(***************************************************************************)
\* Container operations and root calls together.
ShareMaxOps == 5

ShareRegister ==
    \/ \E f \in {1, 2} : RegisterFactory(1, "A", f, "singleton", "", FALSE)
    \/ RegisterConstant(2, "A", ConstOf(2), "n1", FALSE)

ShareCall == \E c \in Containers : RootResolve(c, "A", "")

NextShare ==
    \/ StepReg
    \/ OpsDone + CallsDone < ShareMaxOps /\ ShareRegister
    \/ OpsDone + CallsDone < ShareMaxOps /\ ShareCall

SpecShare == InitPair /\ [][NextShare]_vars

(***************************************************************************)
(* Delayed injection: A is made by a factory that calls delay() after its  *)
(* work, or before it resolves B, or whose callback calls delay() again;   *)
(* B by a plain factory or by one that delays the injection of A.          *)
(***************************************************************************)
\* Container operations and root calls together.
DelayMaxOps == 4

DelayRegister ==
    \/ \E f \in {6, 11, 12}, lifecycle \in {"singleton", "request"} :
           RegisterFactory(1, "A", f, lifecycle, "", FALSE)
    \/ \E f \in {1, 7}, lifecycle \in {"singleton", "request"} :
           RegisterFactory(1, "B", f, lifecycle, "", FALSE)

DelayCall == \E key \in {"A", "B"} : RootResolve(1, key, "")

StepDelay ==
    \/ ResolveEnter
    \/ ResolveAfterFactory
    \/ ResolveDrain
    \/ FactoryStep
    \/ CallbackStep

NextDelay ==
    \/ StepDelay
    \/ OpsDone + CallsDone < DelayMaxOps /\ DelayRegister
    \/ OpsDone + CallsDone < DelayMaxOps /\ DelayCall

SpecDelay == Init /\ [][NextDelay]_vars

(***************************************************************************)
(* Delayed injection among three services: the factory of A, of B and of   *)
(* fnA each makes its instance, delays the injection of the other two and  *)
(* returns.                                                                *)
(***************************************************************************)
\* Container operations and root calls together.
InjectMaxOps == 5

\* The delaying factory of each key.
InjectFactory == [key \in CycleKeys |->
                     IF key = "A" THEN 13 ELSE IF key = "B" THEN 14 ELSE 15]

InjectRegister ==
    \E key \in CycleKeys, lifecycle \in {"singleton", "request"} :
        RegisterFactory(1, key, InjectFactory[key], lifecycle, "", FALSE)

InjectCall == \E key \in CycleKeys : RootResolve(1, key, "")

NextInject ==
    \/ StepDelay
    \/ OpsDone + CallsDone < InjectMaxOps /\ InjectRegister
    \/ OpsDone + CallsDone < InjectMaxOps /\ InjectCall

SpecInject == Init /\ [][NextInject]_vars

(***************************************************************************)
(* Stand-ins used during construction: A is a singleton made by a          *)
(* circular() factory that needs B; B is made by a plain factory or by one *)
(* that needs A and reads a property of it while constructing.             *)
(***************************************************************************)
\* Container operations and root calls together.
LazyMaxOps == 4

NextLazy ==
    \/ StepSnap
    \/ OpsDone + CallsDone < LazyMaxOps /\ RegisterFactory(1, "A", 8, "singleton", "", FALSE)
    \/ OpsDone + CallsDone < LazyMaxOps
           /\ \E f \in {1, 16} : RegisterFactory(1, "B", f, "", "", FALSE)
    \/ OpsDone + CallsDone < LazyMaxOps /\ SnapCall

SpecLazy == Init /\ [][NextLazy]_vars

(***************************************************************************)
(* Mutually dependent classes behind stand-ins: A(b) and B(a), or A(b, c), *)
(* B(a, c) and fnA(a, b), every factory wrapped by circular().             *)
(***************************************************************************)
\* Container operations, root calls and first uses of stand-ins together.
MutualMaxOps == 7

\* The factory and the lifecycle of the registration the root holds for a
\* key (every registration here has the default name), 0 and "" if none.
FactoryOf(key) ==
    LET own == RegsOf(H, registry[1], key)
    IN  IF own = <<>> THEN 0 ELSE regs[own[1]].factory

LifecycleOf(key) ==
    LET own == RegsOf(H, registry[1], key)
    IN  IF own = <<>> THEN "" ELSE regs[own[1]].lifecycle

\* The two classes, or the three, are registered, with one lifecycle.
MutualPair ==
    /\ FactoryOf("A") = 8 /\ FactoryOf("B") = 9 /\ LifecycleOf("A") = LifecycleOf("B")

MutualTriple == FactoryOf("A") = 17 /\ FactoryOf("B") = 18 /\ FactoryOf("fnA") = 19

\* The classes are registered first, one configuration per container, and
\* resolved and used afterwards.
NextMutual ==
    \/ StepSnap
    \/ OpsDone + CallsDone < MutualMaxOps
           /\ \E key \in {"A", "B"}, lifecycle \in {"singleton", "request"} :
                  /\ \A other \in CycleKeys :
                         /\ FactoryOf(other) \in {0, 8, 9}
                         /\ LifecycleOf(other) \in {"", lifecycle}
                  /\ FactoryOf(key) = 0
                  /\ RegisterFactory(1, key, IF key = "A" THEN 8 ELSE 9, lifecycle, "", FALSE)
    \/ OpsDone + CallsDone < MutualMaxOps
           /\ \E key \in CycleKeys :
                  /\ \A other \in CycleKeys : FactoryOf(other) \in {0, 17, 18, 19}
                  /\ FactoryOf(key) = 0
                  /\ RegisterFactory(1, key,
                                     IF key = "A" THEN 17 ELSE IF key = "B" THEN 18 ELSE 19,
                                     "singleton", "", FALSE)
    \/ OpsDone + CallsDone < MutualMaxOps
           /\ (MutualPair \/ MutualTriple)
           /\ \E key \in CycleKeys : FactoryOf(key) # 0 /\ RootResolve(1, key, "")
    \/ OpsDone + CallsDone < MutualMaxOps
           /\ (MutualPair \/ MutualTriple)
           /\ \E o \in DOMAIN objs : ForceProxy(o)

SpecMutual == Init /\ [][NextMutual]_vars

(***************************************************************************)
(* Dependency cycles nothing breaks: factories that resolve each other     *)
(* directly (A needs B needs A; A needs B needs A named n1 needs A; A      *)
(* needs itself; the string key A and the class named A need each other),  *)
(* beside a B that is a plain singleton or injects A in a delayed          *)
(* callback.  Every (key, name) is registered once.                        *)
(***************************************************************************)
\* Container operations and root calls together.
CycleMaxOps == 5

NextCycle ==
    \/ StepDelay
    \/ OpsDone + CallsDone < CycleMaxOps
           /\ \E f \in {4, 5, 10, 21} :
                  ~has(H, 1, "A", "default") /\ RegisterFactory(1, "A", f, "", "", FALSE)
    \/ OpsDone + CallsDone < CycleMaxOps
           /\ \E f \in {1, 7, 10, 20}, lifecycle \in {"", "singleton"} :
                  /\ ~has(H, 1, "B", "default")
                  /\ lifecycle = "singleton" => f = 1
                  /\ RegisterFactory(1, "B", f, lifecycle, "", FALSE)
    \/ OpsDone + CallsDone < CycleMaxOps
           /\ \E key \in {"A", "fnA"} :
                  /\ ~has(H, 1, key, IF key = "A" THEN "n1" ELSE "default")
                  /\ RegisterFactory(1, key, 10, "", IF key = "A" THEN "n1" ELSE "", FALSE)
    \/ OpsDone + CallsDone < CycleMaxOps
           /\ \E key \in ServiceKeys, name \in {"default", "n1"} :
                  has(H, 1, key, name) /\ RootResolve(1, key, name)

SpecCycle == Init /\ [][NextCycle]_vars

(***************************************************************************)
(* Keys that print alike: the string key A and two classes named A, each   *)
(* with a factory that needs the next one, B, or the string key A.         *)
(***************************************************************************)
\* Container operations and root calls together.
PrintMaxOps == 5

NextPrint ==
    \/ ResolveEnter \/ ResolveAfterFactory \/ ResolveDrain \/ FactoryStep
    \/ OpsDone + CallsDone < PrintMaxOps
           /\ \E f \in {5, 21} :
                  ~has(H, 1, "A", "default") /\ RegisterFactory(1, "A", f, "", "", FALSE)
    \/ OpsDone + CallsDone < PrintMaxOps
           /\ \E f \in {10, 22} :
                  ~has(H, 1, "fnA", "default") /\ RegisterFactory(1, "fnA", f, "", "", FALSE)
    \/ OpsDone + CallsDone < PrintMaxOps
           /\ \E f \in {5, 10} :
                  ~has(H, 1, "fnA2", "default")
                      /\ RegisterFactory(1, "fnA2", f, "", "", FALSE)
    \/ OpsDone + CallsDone < PrintMaxOps
           /\ ~has(H, 1, "B", "default") /\ RegisterFactory(1, "B", 1, "", "", FALSE)
    \/ OpsDone + CallsDone < PrintMaxOps
           /\ \E key \in ServiceKeys : has(H, 1, key, "default") /\ RootResolve(1, key, "")

SpecPrint == Init /\ [][NextPrint]_vars

(***************************************************************************)
(* Termination of root calls: transient factories of the string key A and  *)
(* the class named A under the names default and n1, which need each       *)
(* other, themselves, or inject themselves in a delayed callback.  A call  *)
(* in progress always takes its next step; a call that would go deeper     *)
(* than MaxDepth frames has no next step.                                  *)
(***************************************************************************)
\* Container operations and root calls together.
TermMaxOps == 5

NextTerm ==
    \/ StepDelay
    \/ OpsDone + CallsDone < TermMaxOps
           /\ \E f \in {1, 7, 10, 20} :
                  ~has(H, 1, "A", "default") /\ RegisterFactory(1, "A", f, "", "", FALSE)
    \/ OpsDone + CallsDone < TermMaxOps
           /\ \E f \in {1, 10} :
                  ~has(H, 1, "A", "n1") /\ RegisterFactory(1, "A", f, "", "n1", FALSE)
    \/ OpsDone + CallsDone < TermMaxOps
           /\ \E name \in {"", "n1"} :
                  /\ ~has(H, 1, "fnA", IF name = "" THEN "default" ELSE name)
                  /\ RegisterFactory(1, "fnA", IF name = "" THEN 10 ELSE 21, "", name, FALSE)
    \/ OpsDone + CallsDone < TermMaxOps
           /\ \E key \in {"A", "fnA"}, name \in {"default", "n1"} :
                  has(H, 1, key, name) /\ RootResolve(1, key, name)

SpecTerm == Init /\ [][NextTerm]_vars /\ WF_vars(StepDelay)

(***************************************************************************)
(* A failure that a factory catches: A makes its instance, delays the      *)
(* injection of the class named A and then needs B, which is missing,      *)
(* plain or throwing; the factory of the other class named A resolves A    *)
(* inside try/catch.                                                       *)
(***************************************************************************)
\* Container operations and root calls together.
CatchMaxOps == 5

NextCatch ==
    \/ StepDelay
    \/ OpsDone + CallsDone < CatchMaxOps
           /\ \E lifecycle \in {"", "singleton", "request"} :
                  ~has(H, 1, "A", "default")
                      /\ RegisterFactory(1, "A", 23, lifecycle, "", FALSE)
    \/ OpsDone + CallsDone < CatchMaxOps
           /\ \E f \in {1, 3} :
                  ~has(H, 1, "B", "default") /\ RegisterFactory(1, "B", f, "", "", FALSE)
    \/ OpsDone + CallsDone < CatchMaxOps
           /\ \E key \in {"fnA", "fnA2"} :
                  /\ ~has(H, 1, key, "default")
                  /\ RegisterFactory(1, key, IF key = "fnA" THEN 1 ELSE 24, "", "", FALSE)
    \/ OpsDone + CallsDone < CatchMaxOps
           /\ \E key \in {"A", "fnA2"} : has(H, 1, key, "default") /\ RootResolve(1, key, "")

SpecCatch == Init /\ [][NextCatch]_vars

(***************************************************************************)
(* The contextual queries of Context, asked by a factory when it starts:   *)
(* getStack, isResolvingFor and isDirectlyResolvingFor.  A name of "" is   *)
(* the name argument left out.                                             *)
(***************************************************************************)
\* A faulty variant of Context.getStack that hands out the context's own
\* array (C29 must not hold of it).
getStackLive(cx) == [items |-> cx.resolutionStack, live |-> TRUE]

\* Context.getStack: [...this.resolutionStack], a new array of the entries.
getStack(cx) == [items |-> cx.resolutionStack, live |-> FALSE]

\* (entry) => entry.service === key && (name === undefined || entry.name === name)
Matches(entry, key, name) ==
    IF entry.service = key THEN (IF name = "" THEN TRUE ELSE entry.name = name) ELSE FALSE

\* Array.prototype.find over the stack: the index of the first entry the
\* callback accepts, 0 if none.
RECURSIVE FindEntry(_, _, _, _)
FindEntry(resolutionStack, key, name, i) ==
    IF i > Len(resolutionStack) THEN 0
    ELSE IF Matches(resolutionStack[i], key, name) THEN i
    ELSE FindEntry(resolutionStack, key, name, i + 1)

\* Context.isResolvingFor
isResolvingFor(cx, key, name) == FindEntry(cx.resolutionStack, key, name, 1) # 0

\* Context.isDirectlyResolvingFor
isDirectlyResolvingFor(cx, key, name) ==
    IF Len(cx.resolutionStack) < 2 THEN FALSE
    ELSE Matches(cx.resolutionStack[Len(cx.resolutionStack) - 2 + 1], key, name)

\* A factory that has just been called asks its context one question, while
\* no factory that asked before is still running.
FactoryAsks ==
    /\ Running /\ Top.k = "factory" /\ Top.pc = "enter" /\ Top.i = 0
    /\ ret.kind = "none"
    /\ \A i \in DOMAIN callstack : callstack[i].asked.q = ""
    /\ LET cx == ctxs[Top.ctx]
       IN  \/ \E key \in {"A", "B"}, name \in {"", "default", "n1"} :
                  \/ callstack' = SetTop([Top EXCEPT !.asked =
                         [NoAsk EXCEPT !.q = "isResolvingFor", !.key = key, !.name = name,
                                       !.answer = isResolvingFor(cx, key, name)]])
                  \/ callstack' = SetTop([Top EXCEPT !.asked =
                         [NoAsk EXCEPT !.q = "isDirectlyResolvingFor", !.key = key,
                                       !.name = name,
                                       !.answer = isDirectlyResolvingFor(cx, key, name)]])
           \/ callstack' = SetTop([Top EXCEPT !.asked =
                  [NoAsk EXCEPT !.q = "getStack", !.items = getStack(cx).items,
                                !.live = getStack(cx).live]])
    /\ UNCHANGED <<parent, registry, snapshots, maps, lists, regs, objs, ctxs, ret,
                   results, invoked, handed, lastOp>>

\* The factory modifies the array getStack() gave it: it removes the last
\* entry, appends one, or overwrites the first.
FactoryChangesStackCopy ==
    /\ Running /\ Top.k = "factory" /\ ret.kind = "none"
    /\ Top.asked.q = "getStack" /\ ~Top.asked.changed
    /\ \E changedItems \in
              {SubSeq(Top.asked.items, 1, Len(Top.asked.items) - 1),
               Append(Top.asked.items, Dep("B", "n1")),
               [Top.asked.items EXCEPT ![1] = Dep("B", "n1")]} :
           /\ callstack' = SetTop([Top EXCEPT !.asked.items = changedItems,
                                              !.asked.changed = TRUE])
           /\ ctxs' = IF Top.asked.live
                      THEN [ctxs EXCEPT ![Top.ctx].resolutionStack = changedItems]
                      ELSE ctxs
    /\ UNCHANGED <<parent, registry, snapshots, maps, lists, regs, objs, ret,
                   results, invoked, handed, lastOp>>

\* Container operations and root calls together.
QueryMaxOps == 4

NextQuery ==
    \/ ResolveEnter
    \/ ResolveAfterFactory
    \/ ResolveDrain
    \/ FactoryStep
    \/ FactoryAsks
    \/ FactoryChangesStackCopy
    \/ OpsDone + CallsDone < QueryMaxOps
           /\ \E f \in {1, 5, 10} :
                  ~has(H, 1, "A", "default") /\ RegisterFactory(1, "A", f, "", "", FALSE)
    \/ OpsDone + CallsDone < QueryMaxOps
           /\ \E f \in {1, 10, 20} :
                  ~has(H, 1, "B", "default") /\ RegisterFactory(1, "B", f, "", "", FALSE)
    \/ OpsDone + CallsDone < QueryMaxOps
           /\ \E f \in {1, 5} :
                  ~has(H, 1, "A", "n1") /\ RegisterFactory(1, "A", f, "", "n1", FALSE)
    \/ OpsDone + CallsDone < QueryMaxOps
           /\ \E key \in {"A", "B"}, name \in {"default", "n1"} :
                  has(H, 1, key, name) /\ RootResolve(1, key, name)

SpecQuery == Init /\ [][NextQuery]_vars

(***************************************************************************)
(* The order of names: on one container, constants and a factory are       *)
(* registered under three names of A and one of B, with and without        *)
(* replace, names are unregistered, and resolveAll is called.              *)
(***************************************************************************)
\* Container operations and root calls together.
NamesMaxOps == 5

NextNames ==
    \/ ResolveEnter
    \/ ResolveAfterFactory
    \/ ResolveDrain
    \/ FactoryStep
    \/ ResolveAllStep
    \/ OpsDone + CallsDone < NamesMaxOps
           /\ \E name \in {"", "n1", "n2"}, replace \in BOOLEAN :
                  RegisterConstant(1, "A", ExtObject1, name, replace)
    \/ OpsDone + CallsDone < NamesMaxOps
           /\ \E replace \in BOOLEAN : RegisterFactory(1, "A", 1, "", "n1", replace)
    \/ OpsDone + CallsDone < NamesMaxOps
           /\ RegisterConstant(1, "B", ExtObject2, "", FALSE)
    \/ OpsDone + CallsDone < NamesMaxOps
           /\ \E name \in {"", "default", "n1", "n2"} : Unregister(1, "A", name, FALSE)
    \/ OpsDone + CallsDone < NamesMaxOps
           /\ \E key \in {"A", "B"} : RootResolveAll(1, key)

SpecNames == Init /\ [][NextNames]_vars

(***************************************************************************)
(* Registrations changed while a root call is in progress: a container and *)
(* its child; A is made by a factory that calls the container (it closes   *)
(* over it) before it resolves B.                                          *)
(***************************************************************************)
\* Container operations and root calls together.
LiveMaxOps == 4

\* The factory that has just been called registers, replaces or removes the
\* constant B on a container, once in a root call.
FactoryRegisters ==
    /\ Running /\ Top.k = "factory" /\ Top.pc = "enter" /\ Top.i = 0
    /\ ret.kind = "none" /\ lastOp.op = "resolve"
    /\ OpsDone + CallsDone < LiveMaxOps
    /\ \E c \in Containers :
           \/ LET r == registerConstantOrFactory(H, c, "B", ExtObject2, FALSE,
                                                 Options("", "", TRUE))
              IN  /\ SetH(r.h)
                  /\ lastOp' = [Op("registerConstant", c, "B", "default", r.err, TRUE)
                                  EXCEPT !.service = ExtObject2]
           \/ /\ SetH(unregister(H, c, "B", "n1", FALSE))
              /\ lastOp' = Op("unregister", c, "B", "n1", "", FALSE)
    /\ UNCHANGED <<objs, ctxs, callstack, ret, results, invoked, handed>>

NextLive ==
    \/ ResolveEnter
    \/ ResolveAfterFactory
    \/ ResolveDrain
    \/ FactoryStep
    \/ FactoryRegisters
    \/ OpsDone + CallsDone < LiveMaxOps
           /\ \E c \in Containers :
                  ~hasOwn(H, c, "A", "") /\ RegisterFactory(c, "A", 5, "", "", FALSE)
    \/ OpsDone + CallsDone < LiveMaxOps
           /\ \E name \in {"", "n1"} :
                  ~hasOwn(H, 1, "B", name) /\ RegisterConstant(1, "B", ExtObject1, name, FALSE)
    \/ OpsDone + CallsDone < LiveMaxOps
           /\ \E c \in Containers : has(H, c, "A", "") /\ RootResolve(c, "A", "")

SpecLive == InitPair /\ [][NextLive]_vars

(***************************************************************************)
(* What root calls leave behind: a container with a snapshot and its       *)
(* child hold factories of A (plain, throwing, needing B, or needing A)    *)
(* and constants of B under two names; the calls are resolve, resolveAll,  *)
(* resolveTuple and getServiceNames on either container.                   *)
(***************************************************************************)
\* Container operations and root calls together.
FrameMaxOps == 4

NextFrame ==
    \/ StepLife
    \/ OpsDone + CallsDone < FrameMaxOps
           /\ \E c \in Containers, f \in {1, 3, 5, 10}, lifecycle \in {"", "singleton"} :
                  /\ ~hasOwn(H, c, "A", "")
                  /\ (c = 2 \/ lifecycle = "") => f = 5
                  /\ RegisterFactory(c, "A", f, lifecycle, "", FALSE)
    \/ OpsDone + CallsDone < FrameMaxOps
           /\ \E c \in Containers, name \in {"", "n1"} :
                  /\ ~hasOwn(H, c, "B", name) /\ (c = 1 => name = "")
                  /\ RegisterConstant(c, "B", ConstOf(c), name, FALSE)
    \/ OpsDone + CallsDone < FrameMaxOps /\ H.snapshots[1] = <<>> /\ Backup(1, FALSE)
    \/ OpsDone + CallsDone < FrameMaxOps
           /\ \E c \in Containers :
                  \/ RootResolve(c, "A", "")
                  \/ RootResolveAll(c, "B")
                  \/ RootResolveTuple(c, <<Dep("B", "default"), Dep("A", "default")>>)
    \/ OpsDone + CallsDone < FrameMaxOps
           /\ \E c \in Containers, key \in {"A", "B"} :
                  /\ Idle
                  /\ SetH(getMergedRegistry(H, c).h)
                  /\ lastOp' = Op("getServiceNames", c, key, "", "", FALSE)
                  /\ UNCHANGED <<objs, ctxs, callstack, ret, results, invoked, handed>>

SpecFrame == InitPair /\ [][NextFrame]_vars

(***************************************************************************)
(* Shorthands of the claims.                                               *)
(***************************************************************************)
IsFactoryReg(r, lifecycle) == regs[r].factory # 0 /\ regs[r].lifecycle = lifecycle

IsConstantReg(r) == regs[r].factory = 0 /\ regs[r].instance # Undefined

\* The registration (key, name) denotes in the registry of the context of the
\* resolve frame that is about to run, 0 if none.
Entering == Running /\ Top.k = "resolve" /\ Top.pc = "enter" /\ ret.kind = "none"

EnteringReg == getServiceRegistration(ctxs[Top.ctx].registry, Top.key, Top.name).reg

(***************************************************************************)
(* C1: the factory of a Singleton registration is invoked at most once     *)
(* and every resolution of that registration returns the identical         *)
(* reference, whatever the factory returns, also across root calls (no     *)
(* replace, unregister or restore happens under SpecLife).                 *)
(***************************************************************************)
C1_SingletonOnce ==
    \A r \in DOMAIN regs :
        IsFactoryReg(r, "singleton") =>
            /\ Cardinality({i \in DOMAIN invoked : invoked[i].reg = r}) <= 1
            /\ \A i, j \in DOMAIN handed :
                   handed[i].denoted = r /\ handed[j].denoted = r
                       => handed[i].v = handed[j].v

(***************************************************************************)
(* C2: within one root call the factory of a Request registration is       *)
(* invoked at most once and every reference handed out for it is the       *)
(* identical instance.                                                     *)
(***************************************************************************)
C2_RequestOncePerCall ==
    \A r \in DOMAIN regs, c \in DOMAIN ctxs :
        IsFactoryReg(r, "request") =>
            /\ Cardinality({i \in DOMAIN invoked :
                                invoked[i].reg = r /\ invoked[i].ctx = c}) <= 1
            /\ \A i, j \in DOMAIN handed :
                   /\ handed[i].denoted = r /\ handed[i].ctx = c
                   /\ handed[j].denoted = r /\ handed[j].ctx = c
                   => handed[i].v = handed[j].v

(***************************************************************************)
(* C4: a resolve, at root or nested, of a (key, name) registered as a      *)
(* constant v other than undefined returns exactly v, raises no error and  *)
(* invokes no factory.                                                     *)
(***************************************************************************)
C4_ConstantResolves ==
    [][(Entering /\ EnteringReg # 0 /\ IsConstantReg(EnteringReg)) =>
           /\ Len(callstack') = Len(callstack)
           /\ callstack'[Len(callstack)].pc = "drain"
           /\ callstack'[Len(callstack)].val = regs[EnteringReg].instance
           /\ invoked' = invoked]_vars

(***************************************************************************)
(* C3: every root call resolves on its own context, no context is used     *)
(* for a resolution after its root call has returned, a Request instance   *)
(* created during one root call is never returned by, or injected into an  *)
(* object built by, another call, and separate root calls yield different  *)
(* instances of a Request registration.                                    *)
(***************************************************************************)
ContextUsedInOwnCallOnly ==
    /\ \A i \in DOMAIN handed : handed[i].call = ctxs[handed[i].ctx].call
    /\ \A i \in DOMAIN invoked : invoked[i].call = ctxs[invoked[i].ctx].call

RequestInstanceStaysInCall ==
    \A i \in DOMAIN handed :
        (handed[i].src = "factory" /\ IsFactoryReg(handed[i].reg, "request")) =>
            /\ \A j \in DOMAIN results :
                   j # handed[i].call =>
                       /\ results[j].v # handed[i].v
                       /\ \A k \in DOMAIN results[j].vs : results[j].vs[k] # handed[i].v
            /\ \A o \in DOMAIN objs :
                   objs[o].call # handed[i].call =>
                       \A k \in DOMAIN objs[o].fields : objs[o].fields[k] # handed[i].v

RequestInstancesDifferAcrossCalls ==
    \A i, j \in DOMAIN handed :
        /\ handed[i].denoted = handed[j].denoted
        /\ IsFactoryReg(handed[i].denoted, "request")
        /\ handed[i].ctx # handed[j].ctx
        => handed[i].v # handed[j].v

C3_RequestNeverLeaks ==
    /\ ContextUsedInOwnCallOnly
    /\ RequestInstanceStaysInCall
    /\ RequestInstancesDifferAcrossCalls

(***************************************************************************)
(* C5: every resolution of a Transient registration, at root or nested,    *)
(* invokes its factory again and returns that invocation's result, which   *)
(* is stored neither in a request cache nor on the registration.           *)
(***************************************************************************)
C5_TransientAlwaysInvokes ==
    \A i \in DOMAIN handed :
        LET e == handed[i] IN
        (e.denoted # 0 /\ IsFactoryReg(e.denoted, "transient")) =>
            /\ e.src = "factory"
            /\ e.reg = e.denoted
            /\ regs[e.denoted].instance = Undefined
            /\ \A j \in DOMAIN handed : (j # i /\ e.v > 0) => handed[j].v # e.v
            /\ \A c \in DOMAIN ctxs : \A k \in DOMAIN ctxs[c].resolved :
                   e.v > 0 => ctxs[c].resolved[k].service # e.v

(***************************************************************************)
(* Vocabulary of the registry claims, defined on the containers' own       *)
(* registries only.                                                        *)
(***************************************************************************)
\* The records container c itself holds under key, in insertion order.
OwnRegs(h, c, key) == RegsOf(h, h.registry[c], key)

OwnNames(h, c, key) ==
    {h.regs[OwnRegs(h, c, key)[i]].name : i \in DOMAIN OwnRegs(h, c, key)}

\* Container c itself holds a registration (key, name).
Holds(h, c, key, name) == name \in OwnNames(h, c, key)

\* The record container c itself holds as (key, name).
OwnRecord(h, c, key, name) ==
    LET own == OwnRegs(h, c, key)
    IN  own[CHOOSE i \in DOMAIN own : h.regs[own[i]].name = name]

\* (key, name) is registered in container c or in one of its ancestors.
RECURSIVE HeldInChain(_, _, _, _)
HeldInChain(h, c, key, name) ==
    \/ Holds(h, c, key, name)
    \/ h.parent[c] # 0 /\ HeldInChain(h, h.parent[c], key, name)

\* The record of the nearest holder of (key, name) from c upwards, 0 if none.
RECURSIVE Nearest(_, _, _, _)
Nearest(h, c, key, name) ==
    IF Holds(h, c, key, name) THEN OwnRecord(h, c, key, name)
    ELSE IF h.parent[c] # 0 THEN Nearest(h, h.parent[c], key, name)
    ELSE 0

\* Container a is c or an ancestor of c.
RECURSIVE IsSelfOrAncestor(_, _, _)
IsSelfOrAncestor(h, a, c) ==
    a = c \/ (h.parent[c] # 0 /\ IsSelfOrAncestor(h, a, h.parent[c]))

\* The record a merged registry g (as getMergedRegistry returns it) holds as
\* (key, name), 0 if none; and the record container c sees through the merge.
SeenIn(g, key, name) ==
    LET m == RegsOf(g.h, g.map, key)
        i == IndexOfName(g.h.regs, m, name)
    IN  IF i = 0 THEN 0 ELSE m[i]

Seen(h, c, key, name) == SeenIn(getMergedRegistry(h, c), key, name)

IsRegisterOp(o) == o.op \in {"registerConstant", "registerFactory"}

LastResult == results[Len(results)]

LastHanded == handed[Len(handed)]

(***************************************************************************)
(* C6: a root resolve(key, name) of a (key, name) registered neither in    *)
(* the container nor in any ancestor ends with a RangeError, returns no    *)
(* value, and no step of it changes any registry or snapshot.              *)
(***************************************************************************)
C6_UnregisteredFailsNotFound ==
    [][(lastOp'.op = "resolve"
            /\ ~HeldInChain(H', lastOp'.c, lastOp'.key, lastOp'.name)) =>
           /\ View(H') = View(H)
           /\ ~Running' =>
                  /\ Len(results') = Len(results) + 1
                  /\ results'[Len(results')].kind = "exc"
                  /\ results'[Len(results')].err.type = "RangeError"]_vars

\* The child of the root asked for the default name while only another name
\* is registered, in the root: it got the RangeError.
C6_Witness ==
    /\ Idle /\ lastOp.op = "resolve" /\ lastOp.c = 2 /\ lastOp.name = "default"
    /\ parent[2] = 1
    /\ ~HeldInChain(H, 2, "A", "default")
    /\ Holds(H, 1, "A", "n1")
    /\ LastResult.kind = "exc" /\ LastResult.err.type = "RangeError"

(***************************************************************************)
(* C7: registerConstant or registerFactory for a (key, name) the container *)
(* itself holds, without replace, throws TypeError and leaves every        *)
(* registry as it was (records, order, cached instances); when the         *)
(* container itself does not hold (key, name), held by an ancestor or not, *)
(* the call succeeds and the container holds it afterwards.                *)
(***************************************************************************)
C7_DuplicateRegistrationFails ==
    [][(lastOp'.seq # lastOp.seq /\ IsRegisterOp(lastOp')) =>
           LET c == lastOp'.c
               key == lastOp'.key
               name == lastOp'.name
           IN  /\ (Holds(H, c, key, name) /\ ~lastOp'.replace) =>
                      /\ lastOp'.err = "TypeError"
                      /\ View(H') = View(H)
               /\ ~Holds(H, c, key, name) =>
                      /\ lastOp'.err = ""
                      /\ Holds(H', c, key, name)]_vars

\* A constant was registered over a resolved singleton factory of the root
\* without replace and failed, the singleton's cached instance is still on
\* the record; the child holds the same name as its ancestor.
C7_Witness ==
    /\ lastOp.op = "registerConstant" /\ lastOp.c = 1 /\ ~lastOp.replace
    /\ lastOp.err = "TypeError"
    /\ Holds(H, 1, "A", lastOp.name)
    /\ regs[OwnRecord(H, 1, "A", lastOp.name)].factory # 0
    /\ regs[OwnRecord(H, 1, "A", lastOp.name)].instance > 0
    /\ Holds(H, 2, "A", lastOp.name)

(***************************************************************************)
(* C8: registering with replace = true over a (key, name) the container    *)
(* holds succeeds, keeps every other record and the position of the name,  *)
(* and puts there a record made of the new arguments only: the given name, *)
(* the given lifecycle or transient, the constant or no instance, the      *)
(* factory or none.  No value handed out for a record is the instance      *)
(* cached on another record, and a record with a transient factory is      *)
(* always resolved by invoking the factory.                                *)
(***************************************************************************)
C8_ReplaceSwapsWholeRecord ==
    /\ [][(lastOp'.seq # lastOp.seq /\ IsRegisterOp(lastOp') /\ lastOp'.replace
              /\ Holds(H, lastOp'.c, lastOp'.key, lastOp'.name)) =>
             LET c == lastOp'.c
                 key == lastOp'.key
                 name == lastOp'.name
                 old == OwnRegs(H, c, key)
                 new == OwnRegs(H', c, key)
                 i == IndexOfName(regs, old, name)
             IN  /\ lastOp'.err = ""
                 /\ Len(new) = Len(old)
                 /\ \A j \in DOMAIN old :
                        j # i => new[j] = old[j] /\ regs'[new[j]] = regs[old[j]]
                 /\ regs'[new[i]] =
                        [name |-> name,
                         lifecycle |-> IF lastOp'.lifecycle = "" THEN "transient"
                                       ELSE lastOp'.lifecycle,
                         instance |-> lastOp'.service,
                         factory |-> lastOp'.factory]
                 /\ \A d \in Containers, k \in ServiceKeys :
                        (d # c \/ k # key) => OwnView(H', d)[k] = OwnView(H, d)[k]]_vars
    /\ [](\A n \in DOMAIN handed :
              LET e == handed[n]
              IN  e.denoted # 0 =>
                      /\ e.v > 0 => \A d \in DOMAIN regs :
                                        d # e.denoted => regs[d].instance # e.v
                      /\ IsFactoryReg(e.denoted, "transient") => e.src = "factory")

\* A resolved singleton was replaced by a factory with default lifecycle
\* and resolved again: the old record with its cached instance is out of
\* the registry, the new record of the same name is transient and gave a
\* new object.
C8_Witness ==
    /\ Idle /\ lastOp.op = "resolve" /\ lastOp.c = 1
    /\ \E d \in DOMAIN regs :
           /\ \A i \in DOMAIN OwnRegs(H, 1, "A") : OwnRegs(H, 1, "A")[i] # d
           /\ regs[d].lifecycle = "singleton" /\ regs[d].instance > 0
           /\ regs[d].name = lastOp.name
           /\ IsFactoryReg(LastHanded.denoted, "transient")
           /\ LastHanded.name = lastOp.name
           /\ LastHanded.v > 0 /\ LastHanded.v # regs[d].instance
           /\ LastResult.v = LastHanded.v

(***************************************************************************)
(* C9: a container with a parent sees, for every (key, name) it does not   *)
(* hold itself, the record its parent sees, and for every (key, name) it   *)
(* holds, its own record; a finished root resolve returned what the record *)
(* of the nearest holder yields (the constant, or the object its factory   *)
(* made); and a registration in a container changes neither the own        *)
(* registry of any other container nor what any container that is not the  *)
(* registering one or a descendant of it sees.                             *)
(***************************************************************************)
C9_HierarchyOverride ==
    /\ [](\A c \in Containers :
              parent[c] # 0 =>
                  LET seenByChild == getMergedRegistry(H, c)
                      seenByParent == getMergedRegistry(H, parent[c])
                  IN  \A key \in ServiceKeys, name \in ServiceNames :
                          SeenIn(seenByChild, key, name) =
                              IF Holds(H, c, key, name) THEN OwnRecord(H, c, key, name)
                              ELSE SeenIn(seenByParent, key, name))
    /\ []((Idle /\ lastOp.op = "resolve") =>
              LET r == Nearest(H, lastOp.c, lastOp.key, lastOp.name)
              IN  IF r = 0 THEN LastResult.kind = "exc"
                  ELSE /\ LastResult.kind = "val"
                       /\ LastResult.v = LastHanded.v
                       /\ LastHanded.denoted = r
                       /\ regs[r].instance = LastResult.v
                       /\ regs[r].factory # 0 =>
                              /\ LastResult.v > 0
                              /\ objs[LastResult.v].f = regs[r].factory)
    /\ [][(lastOp'.seq # lastOp.seq /\ IsRegisterOp(lastOp')) =>
              \A p \in Containers :
                  /\ p # lastOp'.c => OwnView(H', p) = OwnView(H, p)
                  /\ ~IsSelfOrAncestor(H, lastOp'.c, p) =>
                         LET before == getMergedRegistry(H, p)
                             after == getMergedRegistry(H', p)
                         IN  \A key \in ServiceKeys, name \in ServiceNames :
                                 SeenIn(after, key, name) = SeenIn(before, key, name)]_vars

\* In a chain of three containers the root and its child both hold the
\* default name; the grandchild, holding nothing, resolved it and got the
\* child's constant.
C9_Witness ==
    /\ Idle /\ lastOp.op = "resolve" /\ lastOp.c = 3 /\ lastOp.name = "default"
    /\ Len(parent) = 3 /\ parent[3] = 2 /\ parent[2] = 1
    /\ Holds(H, 1, "A", "default") /\ Holds(H, 2, "A", "default")
    /\ ~Holds(H, 3, "A", "default")
    /\ LastResult.kind = "val" /\ LastResult.v = ConstOf(2)

(***************************************************************************)
(* C10: for every container with a parent and every key, the list seen     *)
(* through the merge is the parent's merged list with each name the        *)
(* container also owns replaced in place by the container's record,        *)
(* followed by the container's other records in its insertion order;       *)
(* getServiceNames gives the names of that list and a finished resolveAll  *)
(* returned the values of that list, in that order.                        *)
(***************************************************************************)
MergeRule(h, fromParent, c, key) ==
    LET own == OwnRegs(h, c, key)
        parentNames == {h.regs[fromParent[i]].name : i \in DOMAIN fromParent}
        childOnly(r) == h.regs[r].name \notin parentNames
    IN  [i \in 1..Len(fromParent) |->
             IF Holds(h, c, key, h.regs[fromParent[i]].name)
             THEN OwnRecord(h, c, key, h.regs[fromParent[i]].name)
             ELSE fromParent[i]]
        \o SelectSeq(own, childOnly)

C10_MergeOrder ==
    /\ \A c \in Containers :
           parent[c] # 0 =>
               LET seenByChild == getMergedRegistry(H, c)
                   seenByParent == getMergedRegistry(H, parent[c])
               IN  \A key \in ServiceKeys :
                       LET expected == MergeRule(H, RegsOf(seenByParent.h,
                                                           seenByParent.map, key),
                                                 c, key)
                       IN  /\ RegsOf(seenByChild.h, seenByChild.map, key) = expected
                           /\ getServiceNames(H, c, key) = NamesOf(regs, expected)
    /\ (Idle /\ lastOp.op = "resolveAll" /\ parent[lastOp.c] # 0) =>
           LET expected == MergeRule(H, MergedRegs(H, parent[lastOp.c], lastOp.key),
                                     lastOp.c, lastOp.key)
           IN  /\ LastResult.kind = "val"
               /\ LastResult.vs = [i \in 1..Len(expected) |-> regs[expected[i]].instance]

\* The root holds the default name, its child n1, the grandchild the
\* default name again: the grandchild listed its own record first, in the
\* root's position, then the child's.
C10_Witness ==
    /\ Idle /\ lastOp.op = "resolveAll" /\ lastOp.c = 3
    /\ OwnNames(H, 1, "A") = {"default"}
    /\ OwnNames(H, 2, "A") = {"n1"}
    /\ OwnNames(H, 3, "A") = {"default"}
    /\ getServiceNames(H, 3, "A") = <<"default", "n1">>
    /\ LastResult.vs = <<ConstOf(3), ConstOf(2)>>

(***************************************************************************)
(* C11: for every container, key and name, has(key, name) is true exactly  *)
(* when getServiceNames(key) contains the name, has(key) exactly when      *)
(* getServiceNames(key) is not empty, hasOwn(key, name) and hasOwn(key)    *)
(* exactly when the container's own registry holds the name, or any name,  *)
(* under the key; and a finished root resolve(key, name) ended with        *)
(* RangeError exactly when has(key, name) was false.                       *)
(***************************************************************************)
C11_HasAgreesWithMergedView ==
    /\ \A c \in Containers :
           LET seen == getMergedRegistry(H, c)
           IN  \A key \in ServiceKeys :
                   LET names == getServiceNames(H, c, key)
                   IN  /\ names = NamesOf(regs, RegsOf(seen.h, seen.map, key))
                       /\ has(H, c, key, "") = (names # <<>>)
                       /\ hasOwn(H, c, key, "") = (OwnRegs(H, c, key) # <<>>)
                       /\ \A name \in ServiceNames :
                              /\ has(H, c, key, name) =
                                     (\E i \in DOMAIN names : names[i] = name)
                              /\ hasOwn(H, c, key, name) = Holds(H, c, key, name)
    /\ (Idle /\ lastOp.op = "resolve") =>
           (has(H, lastOp.c, lastOp.key, lastOp.name)
                = ~(LastResult.kind = "exc" /\ LastResult.err.type = "RangeError"))

\* The child holds the default name only and its parent n1 only: the child
\* has both, owns one, and its resolve of n1 gave the parent's value.
C11_Witness ==
    /\ Idle /\ lastOp.op = "resolve" /\ lastOp.c = 2 /\ lastOp.name = "n1"
    /\ parent[2] = 1
    /\ OwnNames(H, 1, "A") = {"n1"} /\ OwnNames(H, 2, "A") = {"default"}
    /\ has(H, 2, "A", "n1") /\ ~hasOwn(H, 2, "A", "n1")
    /\ has(H, 2, "A", "default") /\ ~has(H, 1, "A", "default")
    /\ LastResult.kind = "val"

(***************************************************************************)
(* C12: unregister(key) empties the container's own list of the key;       *)
(* unregister(key, name) takes exactly the record of that name out of the  *)
(* list, the other records keeping their order and content; a call for a   *)
(* key or name the container does not hold changes nothing; no call        *)
(* throws, and the lists of every other key stay as they were.             *)
(***************************************************************************)
C12_UnregisterRemovesExactly ==
    [][(lastOp'.seq # lastOp.seq /\ lastOp'.op = "unregister") =>
           LET c == lastOp'.c
               key == lastOp'.key
               name == lastOp'.name
               old == OwnRegs(H, c, key)
               new == OwnRegs(H', c, key)
               others(r) == regs[r].name # name
           IN  /\ lastOp'.err = ""
               /\ name = "" => new = <<>>
               /\ name # "" =>
                      /\ new = SelectSeq(old, others)
                      /\ \A i \in DOMAIN new : regs'[new[i]] = regs[new[i]]
               /\ (name # "" /\ ~Holds(H, c, key, name)) =>
                      OwnView(H', c) = OwnView(H, c)
               /\ (name = "" /\ old = <<>>) => OwnView(H', c) = OwnView(H, c)
               /\ \A k \in ServiceKeys :
                      k # key => OwnView(H', c)[k] = OwnView(H, c)[k]]_vars

\* n1 was taken out of default, n1, n2 of key A: default and n2 are left in
\* that order and key B is still held.
C12_Witness ==
    /\ lastOp.op = "unregister" /\ lastOp.key = "A" /\ lastOp.name = "n1"
    /\ lastOp.hadOwn
    /\ NamesOf(regs, OwnRegs(H, 1, "A")) = <<"default", "n2">>
    /\ Holds(H, 1, "B", "default")

(***************************************************************************)
(* C13: unregister without cascade changes the own registry of no other    *)
(* container, and for each name it removed the container then sees what    *)
(* its parent sees; unregister with cascade applies the same removal to    *)
(* the container and every ancestor up to the root and to no other         *)
(* container, after which has(key, name) is false on each of them; and a   *)
(* finished root resolve returned the constant of the nearest holder, or   *)
(* ended with RangeError when there is none.                               *)
(***************************************************************************)
C13_UnregisterCascade ==
    /\ [][(lastOp'.seq # lastOp.seq /\ lastOp'.op = "unregister") =>
              LET c == lastOp'.c
                  key == lastOp'.key
                  cascade == lastOp'.replace
                  removed(name) == lastOp'.name = "" \/ name = lastOp'.name
                  rest(r) == ~removed(regs[r].name)
              IN  /\ ~cascade =>
                         /\ \A p \in Containers :
                                p # c => OwnView(H', p) = OwnView(H, p)
                         /\ parent[c] # 0 =>
                                \A name \in ServiceNames :
                                    removed(name) =>
                                        /\ Seen(H', c, key, name)
                                               = Seen(H, parent[c], key, name)
                                        /\ Seen(H', parent[c], key, name)
                                               = Seen(H, parent[c], key, name)
                  /\ cascade =>
                         \A a \in Containers :
                             IF IsSelfOrAncestor(H, a, c)
                             THEN /\ OwnRegs(H', a, key) = SelectSeq(OwnRegs(H, a, key), rest)
                                  /\ \A name \in ServiceNames :
                                         removed(name) => ~has(H', a, key, name)
                                  /\ lastOp'.name = "" => ~has(H', a, key, "")
                             ELSE OwnView(H', a) = OwnView(H, a)]_vars
    /\ []((Idle /\ lastOp.op = "resolve") =>
              LET r == Nearest(H, lastOp.c, lastOp.key, lastOp.name)
              IN  IF r = 0
                  THEN LastResult.kind = "exc" /\ LastResult.err.type = "RangeError"
                  ELSE LastResult.kind = "val" /\ LastResult.v = regs[r].instance)

\* The grandchild unregistered the default name with cascade; it did not
\* hold the name itself but an ancestor did, and now neither it nor the
\* root has it, while the root still holds n1.
C13_Witness ==
    /\ lastOp.op = "unregister" /\ lastOp.c = 3 /\ lastOp.replace
    /\ lastOp.name = "default" /\ lastOp.had /\ ~lastOp.hadOwn
    /\ ~has(H, 3, "A", "default") /\ ~has(H, 1, "A", "default")
    /\ Holds(H, 1, "A", "n1")

\* What a registry Map registers: per key the names in order, each with its
\* lifecycle and its factory, or its value when it is a constant.
Registered(h, m) ==
    [key \in ServiceKeys |->
        LET list == RegsOf(h, m, key)
        IN  [i \in 1..Len(list) |->
                LET r == h.regs[list[i]]
                IN  [name |-> r.name, lifecycle |-> r.lifecycle, factory |-> r.factory,
                     value |-> IF r.factory = 0 THEN r.instance ELSE Undefined]]]

Depth(h, c) == Len(h.snapshots[c])

(***************************************************************************)
(* C14: backup() puts on the stack what the own registry registers at that *)
(* moment and leaves the live registry registering the same; nothing done  *)
(* afterwards (register with or without replace, unregister, resolve)      *)
(* changes what a snapshot on the stack registers; restore() with a        *)
(* snapshot on the stack makes the own registry register exactly what the  *)
(* newest snapshot registers: same keys, same names in the same order,     *)
(* same lifecycles, same values and factories; and a finished resolve      *)
(* returns the constant the own registry registers under the name.         *)
(***************************************************************************)
C14_BackupRestoreRoundTrip ==
    /\ [][/\ \A c \in Containers :
                 \A i \in 1..Depth(H, c) :
                     i <= Depth(H', c) =>
                         Registered(H', snapshots'[c][i]) = Registered(H, snapshots[c][i])
          /\ (lastOp'.seq # lastOp.seq /\ lastOp'.op = "backup") =>
                 LET c == lastOp'.c
                 IN  /\ Depth(H', c) = Depth(H, c) + 1
                     /\ Registered(H', snapshots'[c][Depth(H', c)])
                            = Registered(H, registry[c])
                     /\ Registered(H', registry'[c]) = Registered(H, registry[c])
          /\ (lastOp'.seq # lastOp.seq /\ lastOp'.op = "restore"
                  /\ Depth(H, lastOp'.c) > 0) =>
                 LET c == lastOp'.c
                 IN  /\ Depth(H', c) = Depth(H, c) - 1
                     /\ Registered(H', registry'[c])
                            = Registered(H, snapshots[c][Depth(H, c)])]_vars
    /\ []((Idle /\ lastOp.op = "resolve") =>
              LET r == Nearest(H, lastOp.c, lastOp.key, lastOp.name)
              IN  IF r = 0
                  THEN LastResult.kind = "exc" /\ LastResult.err.type = "RangeError"
                  ELSE /\ LastResult.kind = "val"
                       /\ regs[r].factory = 0 => LastResult.v = regs[r].instance)

\* A was unregistered after a backup, so that the container held nothing
\* under A when restore() was called, and the restore brought its
\* singleton factory back.
C14_Witness ==
    /\ lastOp.op = "restore" /\ lastOp.c = 1 /\ ~lastOp.hadOwn
    /\ Depth(H, 1) = 0
    /\ NamesOf(regs, OwnRegs(H, 1, "A")) = <<"default">>
    /\ regs[OwnRecord(H, 1, "A", "default")].lifecycle = "singleton"

(***************************************************************************)
(* C15: nothing done after backup() changes a snapshot on the stack, the   *)
(* cached instances of its records included, so that a singleton first     *)
(* made after backup() is not cached after restore(); backup() leaves the  *)
(* cached instances in the own registry and in the snapshot, and restore() *)
(* makes the records of the newest snapshot, with their cached instances,  *)
(* the own registry.                                                       *)
(***************************************************************************)
C15_SnapshotNeverChanges ==
    [][\A c \in Containers :
          LET n == Depth(H, c)
              called(op) == lastOp'.seq # lastOp.seq /\ lastOp'.op = op /\ lastOp'.c = c
          IN  /\ \A i \in 1..n :
                     i <= Depth(H', c) => SnapshotView(H', c)[i] = SnapshotView(H, c)[i]
              /\ called("backup") =>
                     /\ Depth(H', c) = n + 1
                     /\ SnapshotView(H', c)[n + 1] = OwnView(H, c)
                     /\ OwnView(H', c) = OwnView(H, c)
              /\ (called("restore") /\ n > 0) =>
                     OwnView(H', c) = SnapshotView(H, c)[n]]_vars

(***************************************************************************)
(* C16: the snapshots of a container are a stack: backup() adds one        *)
(* snapshot on top, registering what the own registry registers, and       *)
(* leaves the snapshots below as they are; restore() makes the own         *)
(* registry register what the top snapshot registers and removes that      *)
(* snapshot only, so that                                                  *)
(* nested backups are undone innermost first; restore() with no snapshot   *)
(* changes neither the own registry nor the stack; no other step changes   *)
(* the stack.                                                              *)
(***************************************************************************)
C16_SnapshotsAreStack ==
    [][\A c \in Containers :
          LET n == Depth(H, c)
              called(op) == lastOp'.seq # lastOp.seq /\ lastOp'.op = op /\ lastOp'.c = c
              live(h) == Registered(h, h.registry[c])
              stack(h) == [i \in 1..Depth(h, c) |-> Registered(h, h.snapshots[c][i])]
          IN  /\ called("backup") =>
                     /\ stack(H') = Append(stack(H), live(H))
                     /\ live(H') = live(H)
              /\ (called("restore") /\ n > 0) =>
                     /\ stack(H') = SubSeq(stack(H), 1, n - 1)
                     /\ live(H') = stack(H)[n]
              /\ (called("restore") /\ n = 0) =>
                     /\ stack(H') = <<>>
                     /\ live(H') = live(H)
              /\ ~(called("backup") \/ called("restore")) =>
                     stack(H') = stack(H)]_vars

\* The first restore after two nested backups: A was registered after the
\* first backup and unregistered after the second, and the restore brought
\* it back; the live registry is the copy made by the first backup, whose
\* snapshot is still on the stack.
C16_Witness ==
    /\ lastOp.op = "restore" /\ lastOp.c = 1 /\ ~lastOp.hadOwn
    /\ Depth(H, 1) = 1 /\ registry[1] = 2 /\ Len(maps) = 3
    /\ Holds(H, 1, "A", "default")
    /\ Records(H, snapshots[1][1])["A"] = <<>>

(***************************************************************************)
(* C17: backup() and restore() without cascade push and pop a snapshot on  *)
(* the container only, and with cascade on the container and on every      *)
(* ancestor up to the root: each of these gets one snapshot more           *)
(* registering what it registers, or gets back what its newest snapshot    *)
(* registers and has one snapshot less (nothing changes where the stack is *)
(* empty); the own registry and the snapshots of every other container,    *)
(* ancestors included when there is no cascade, stay as they are.          *)
(***************************************************************************)
C17_SnapshotCascade ==
    [][(lastOp'.seq # lastOp.seq /\ lastOp'.op \in {"backup", "restore"}) =>
          \A a \in Containers :
              LET n == Depth(H, a)
                  cascade == lastOp'.replace
                  live(h) == Registered(h, h.registry[a])
                  stack(h) == [i \in 1..Depth(h, a) |-> Registered(h, h.snapshots[a][i])]
              IN  IF a = lastOp'.c \/ (cascade /\ IsSelfOrAncestor(H, a, lastOp'.c))
                  THEN IF lastOp'.op = "backup"
                       THEN stack(H') = Append(stack(H), live(H)) /\ live(H') = live(H)
                       ELSE IF n > 0
                            THEN /\ stack(H') = SubSeq(stack(H), 1, n - 1)
                                 /\ live(H') = stack(H)[n]
                            ELSE stack(H') = <<>> /\ live(H') = live(H)
                  ELSE /\ OwnView(H', a) = OwnView(H, a)
                       /\ SnapshotView(H', a) = SnapshotView(H, a)]_vars

\* The grandchild was backed up with cascade, then the root registered A,
\* the only registration ever made, and the grandchild's restore with
\* cascade removed it from the root.
C17_Witness ==
    /\ lastOp.op = "restore" /\ lastOp.c = 3 /\ lastOp.replace /\ lastOp.had
    /\ Len(regs) = 1 /\ regs[1].instance = ConstOf(1)
    /\ ~Holds(H, 1, "A", "default")
    /\ \A c \in Containers : Depth(H, c) = 0

(***************************************************************************)
(* C18: for a Singleton registration that a container holds and that its   *)
(* descendants see through the merge, the resolutions made through the     *)
(* container and through the descendants all return the identical          *)
(* instance, and its factory was invoked at most once by all of them       *)
(* together.                                                               *)
(***************************************************************************)
C18_SingletonSharedInChain ==
    \A p \in Containers, key \in ServiceKeys, name \in ServiceNames :
        LET r == IF Holds(H, p, key, name) THEN OwnRecord(H, p, key, name) ELSE 0
            sees(c) == IsSelfOrAncestor(H, p, c) /\ Seen(H, c, key, name) = r
            through(x) == sees(ctxs[x].container)
        IN  (r # 0 /\ IsFactoryReg(r, "singleton")) =>
                /\ Cardinality({i \in DOMAIN invoked :
                                    invoked[i].reg = r /\ through(invoked[i].ctx)}) <= 1
                /\ \A i, j \in DOMAIN handed :
                       /\ handed[i].denoted = r /\ through(handed[i].ctx)
                       /\ handed[j].denoted = r /\ through(handed[j].ctx)
                       => handed[i].v = handed[j].v

(***************************************************************************)
(* C19: whenever a callback passed to delay() is running, the factory that *)
(* passed it (the one making the object the callback injects into) is not  *)
(* executing any more, the resolve call that invoked this factory has got  *)
(* the object from it and has not returned yet, and the object is in the   *)
(* context's cache under the (key, name) of that call (all registrations   *)
(* of SpecDelay are Singleton or Request).                                 *)
(***************************************************************************)
C19_DelayedRunsAfterFactory ==
    \A i \in DOMAIN callstack :
        callstack[i].k = "callback" =>
            LET o == callstack[i].obj
            IN  /\ \A j \in DOMAIN callstack :
                       ~(callstack[j].k = "factory" /\ callstack[j].obj = o)
                /\ \E j \in 1..(i - 1) :
                       /\ callstack[j].k = "resolve" /\ callstack[j].pc = "drain"
                       /\ callstack[j].val = o
                       /\ findInResolved(ctxs[callstack[j].ctx].resolved,
                                         callstack[j].key, callstack[j].name) = o

Queue(c) == ctxs[c].delayedCallbacksQueue

StartsCallback == Len(callstack') = Len(callstack) + 1 /\ callstack'[Len(callstack')].k = "callback"

(***************************************************************************)
(* C20: a step changes the delayed queue of a context only by adding one   *)
(* callback at its end, or by taking the callback at its front and         *)
(* starting it; a callback is started only so, hence in the order of       *)
(* enqueuing and once; a resolve call pops its path-stack entry after a    *)
(* successful resolution only when the queue is empty; and when a root     *)
(* resolve has returned a value the queue of its context is empty.         *)
(***************************************************************************)
C20_DelayedFifo ==
    /\ [][/\ \A c \in DOMAIN ctxs :
                 Queue(c)' # Queue(c) =>
                     \/ /\ Len(Queue(c)') = Len(Queue(c)) + 1
                        /\ SubSeq(Queue(c)', 1, Len(Queue(c))) = Queue(c)
                        /\ ~StartsCallback
                     \/ /\ Queue(c) # <<>>
                        /\ Queue(c)' = Tail(Queue(c))
                        /\ StartsCallback
                        /\ callstack'[Len(callstack')].ctx = c
                        /\ callstack'[Len(callstack')].obj = Queue(c)[1].obj
                        /\ callstack'[Len(callstack')].targets = Queue(c)[1].targets
          /\ StartsCallback =>
                 \E c \in DOMAIN ctxs :
                     /\ c = callstack'[Len(callstack')].ctx
                     /\ Queue(c) # <<>> /\ Queue(c)' = Tail(Queue(c))
          /\ \A c \in DOMAIN ctxs :
                 (/\ Len(ctxs'[c].resolutionStack) < Len(ctxs[c].resolutionStack)
                  /\ ret.kind # "exc") =>
                     Queue(c) = <<>> /\ Queue(c)' = <<>>]_vars
    /\ []((Idle /\ results # <<>> /\ LastResult.kind = "val") =>
              Queue(LastResult.ctx) = <<>>)

\* A root resolve of A has returned an object whose callback enqueued a
\* second callback and then resolved B: the second callback, run by the
\* resolve of B, injected A itself, then the first injected B; the queue is
\* empty.
C20_Witness ==
    /\ Idle /\ results # <<>> /\ LastResult.kind = "val" /\ LastResult.key = "A"
    /\ LastResult.v > 0
    /\ objs[LastResult.v].f = 12
    /\ Len(objs[LastResult.v].fields) = 2
    /\ objs[LastResult.v].fields[1] = LastResult.v
    /\ objs[LastResult.v].fields[2] > 0
    /\ objs[LastResult.v].fields[2] # LastResult.v
    /\ Queue(LastResult.ctx) = <<>>

\* The objects an object refers to, and those reachable from it.
FieldsOf(o) == IF o > 0 THEN {objs[o].fields[i] : i \in DOMAIN objs[o].fields} ELSE {}

Graph(o) ==
    LET one == {o} \cup FieldsOf(o)
        two == one \cup UNION {FieldsOf(x) : x \in one}
    IN  two \cup UNION {FieldsOf(x) : x \in two}

InvokedIn(call, key) ==
    Cardinality({i \in DOMAIN invoked : invoked[i].call = call /\ invoked[i].key = key})

Forcing == {callstack[i].obj : i \in {j \in DOMAIN callstack : callstack[j].k = "force"}}

(***************************************************************************)
(* C22: the resolution of a registration made with circular() calls no     *)
(* inner factory and gets a stand-in without a real instance at once; the  *)
(* inner factory is called for a stand-in only while it has no real        *)
(* instance, never while a call of it for the same stand-in is in          *)
(* progress, and the real instance of a stand-in, once set, never changes. *)
(***************************************************************************)
C22_LazyStandIn ==
    /\ [][/\ (/\ Entering /\ EnteringReg # 0 /\ IsFactoryReg(EnteringReg, "singleton")
              /\ FactoryDefs[regs[EnteringReg].factory].circ
              /\ ret'.kind = "val") =>
                 /\ Len(callstack') = Len(callstack)
                 /\ Len(objs') = Len(objs) + 1
                 /\ ret'.v = Len(objs')
                 /\ objs'[ret'.v].kind = "proxy" /\ objs'[ret'.v].real = Undefined
          /\ \A o \in DOMAIN objs :
                 /\ Truthy(objs[o].real) => objs'[o].real = objs[o].real
                 /\ (o \in Forcing' /\ o \notin Forcing) => ~Truthy(objs[o].real)]_vars
    /\ [](\A i, j \in DOMAIN callstack :
              (/\ callstack[i].k = "force" /\ callstack[j].k = "force"
               /\ callstack[i].obj = callstack[j].obj) => i = j)

\* What a reference leads to: the fields of the real instance behind a
\* stand-in that has been forced, the fields of a plain object.
RefsOf(o) ==
    IF o <= 0 THEN {}
    ELSE IF objs[o].kind = "proxy"
    THEN IF Truthy(objs[o].real) THEN FieldsOf(objs[o].real) ELSE {}
    ELSE FieldsOf(o)

RefGraph(o) ==
    LET one == {o} \cup RefsOf(o)
        two == one \cup UNION {RefsOf(x) : x \in one}
    IN  two \cup UNION {RefsOf(x) : x \in two}

(***************************************************************************)
(* C23: with A(b) and B(a), or A, B and fnA each needing the other two,    *)
(* registered behind circular() with one lifecycle, Singleton or Request,  *)
(* no root resolve and no first use of a stand-in ends with an error, no   *)
(* factory is entered while a call of it is in progress, and among the     *)
(* stand-ins reached from a resolved one through the forced instances      *)
(* there is one per class, so that A.b.a is the resolved A.                *)
(***************************************************************************)
C23_StandInsBreakCycles ==
    (MutualPair \/ MutualTriple) =>
        /\ \A i \in DOMAIN results : results[i].kind = "val"
        /\ \A i, j \in DOMAIN callstack :
               (/\ callstack[i].k = "factory" /\ callstack[j].k = "factory"
                /\ callstack[i].f = callstack[j].f) => i = j
        /\ \A i \in {j \in DOMAIN results : results[j].op = "resolve"} :
               LET g == RefGraph(results[i].v)
               IN  /\ \A x \in g : x > 0 /\ objs[x].kind = "proxy"
                   /\ \A x, y \in g : objs[x].f = objs[y].f => x = y

\* A and B are Request services; the resolved A and then its b were forced,
\* and the a of that B is the resolved A.
C23_Witness ==
    /\ Idle /\ MutualPair /\ LifecycleOf("A") = "request"
    /\ Len(results) = 3 /\ results[1].op = "resolve" /\ results[1].key = "A"
    /\ LET a == results[1].v
       IN  /\ a > 0 /\ Truthy(objs[a].real)
           /\ \E b \in RefsOf(a) : b # a /\ Truthy(objs[b].real) /\ RefsOf(b) = {a}


(***************************************************************************)
(* C24.  Immediately before a factory would be invoked, and only then (a   *)
(* hit in the context's cache or an instance on the record goes on without *)
(* the check), the resolve fails with a circular-dependency error exactly  *)
(* when the current entry occurs among the earlier entries of the path,    *)
(* the segment from its first occurrence to the entry before the current   *)
(* one has even length, and the two halves of the segment are equal entry  *)
(* by entry; in every other case the factory is invoked.  Entries are      *)
(* compared in the form "key[name]" the path is made of.                   *)
(***************************************************************************)
TwoHalves(path) ==
    LET n == Len(path)
    IN  \E first \in 1..(n - 1) :
            /\ path[first] = path[n]
            /\ \A j \in 1..(first - 1) : path[j] # path[n]
            /\ (n - first) % 2 = 0
            /\ \A k \in 1..((n - first) \div 2) :
                   path[first + k - 1] = path[first + ((n - first) \div 2) + k - 1]

\* The path of a context with the entry of the resolve that is starting.
PathAtEnter ==
    LET pushed == Append(ctxs[Top.ctx].resolutionStack, Dep(Top.key, Top.name))
    IN  [i \in 1..Len(pushed) |-> PathEntry(pushed[i])]

\* What the step just taken handed on: the outcome of the root call when it
\* ended, else the value or exception in flight.
LastOutcome == IF callstack = <<>> THEN results[Len(results)] ELSE ret

CircularDependencyRaised ==
    /\ LastOutcome.kind = "exc"
    /\ LastOutcome.err.type = "ServiceResolutionError"
    /\ LastOutcome.err.cause = "Error"

MaxPeriod == 3

NoDep == Dep("", "")

\* The one service the factory registered as entry needs, when it is a
\* factory that resolves one service and then makes its instance.
SoleNeed(entry) ==
    IF entry = NoDep \/ ~Holds(H, 1, entry.service, entry.name) THEN NoDep
    ELSE LET registration == regs[OwnRecord(H, 1, entry.service, entry.name)]
             def == FactoryDefs[registration.factory]
         IN  IF registration.factory = 0 \/ Truthy(registration.instance) THEN NoDep
             ELSE IF /\ Len(def.deps) = 1 /\ def.delayed = <<>> /\ def.ret = "new"
                     /\ ~def.circ /\ ~def.early /\ ~def.touches
             THEN def.deps[1]
             ELSE NoDep

RECURSIVE Follow(_, _)
Follow(entry, k) == IF k = 0 THEN entry ELSE Follow(SoleNeed(entry), k - 1)

\* The period of the cycle entry lies on, 0 when it lies on none.
PeriodOf(entry) ==
    IF entry # NoDep /\ \E p \in 1..MaxPeriod : Follow(entry, p) = entry
    THEN CHOOSE p \in 1..MaxPeriod :
             Follow(entry, p) = entry /\ \A k \in 1..(p - 1) : Follow(entry, k) # entry
    ELSE 0

\* The number of steps from root to the first entry that lies on a cycle.
Lead(root) ==
    CHOOSE q \in 0..MaxPeriod :
        PeriodOf(Follow(root, q)) # 0 /\ \A k \in 0..(q - 1) : PeriodOf(Follow(root, k)) = 0

\* The chain from root leads into a cycle of period p >= 2 whose entries,
\* and the entries before it, differ in their printed form.
UnbrokenCycle(root) ==
    /\ \E q \in 0..MaxPeriod : PeriodOf(Follow(root, q)) >= 2
    /\ PeriodOf(Follow(root, Lead(root))) >= 2
    /\ LET n == Lead(root) + PeriodOf(Follow(root, Lead(root)))
       IN  \A j, k \in 0..(n - 1) :
               PathEntry(Follow(root, j)) = PathEntry(Follow(root, k)) => j = k

EnteredIn(log, call, entry) ==
    Cardinality({i \in DOMAIN log : /\ log[i].call = call /\ log[i].key = entry.service
                                     /\ log[i].name = entry.name})

SelfReferential(entry) ==
    /\ Holds(H, 1, entry.service, entry.name)
    /\ LET registration == regs[OwnRecord(H, 1, entry.service, entry.name)]
           def == FactoryDefs[registration.factory]
       IN  /\ registration.factory # 0 /\ ~Truthy(registration.instance)
           /\ ~def.circ /\ ~def.early /\ def.deps # <<>> /\ def.deps[1] = entry

\* A resolve of a self-referential entry is starting while the path ends
\* with n entries of it, and nothing before them prints like it.
SelfEnter(n) ==
    /\ Running /\ Top.k = "resolve" /\ Top.pc = "enter" /\ ret.kind = "none"
    /\ SelfReferential(Dep(Top.key, Top.name))
    /\ LET path == ctxs[Top.ctx].resolutionStack
           entry == Dep(Top.key, Top.name)
       IN  /\ Len(path) >= n
           /\ \A k \in 1..Len(path) :
                  (PathEntry(path[k]) = PathEntry(entry)) <=> (k > Len(path) - n)
           /\ \A k \in (Len(path) - n + 1)..Len(path) : path[k] = entry

\* C26 as claimed: the resolve fails with a circular-dependency error when
\* the path is (key, name), (key, name), before the factory is invoked a
\* second time.
C26_SelfReferenceFoundAtOnce ==
    [][SelfEnter(1) => CircularDependencyRaised' /\ invoked' = invoked]_vars

\* C26 as amended: at the path (key, name), (key, name) nothing is raised
\* and the factory is invoked a second time; the resolve fails with a
\* circular-dependency error when the path is (key, name), (key, name),
\* (key, name), before a third invocation.
C26_SelfReferenceFoundAtThird ==
    [][/\ SelfEnter(1) =>
              /\ callstack' # <<>> /\ ret'.kind # "exc"
              /\ invoked' = Append(invoked, invoked'[Len(invoked')])
              /\ invoked'[Len(invoked')].key = Top.key
              /\ invoked'[Len(invoked')].name = Top.name
       /\ SelfEnter(2) => CircularDependencyRaised' /\ invoked' = invoked]_vars

\* A root resolve of a self-referential service failed with the path holding
\* its entry three times, its factory having been invoked twice.
C26_Witness ==
    \E i \in DOMAIN results :
        /\ results[i].kind = "exc" /\ results[i].err.cause = "Error"
        /\ SelfReferential(Dep(results[i].key, results[i].name))
        /\ results[i].err.stack = [k \in 1..3 |-> Dep(results[i].key, results[i].name)]
        /\ EnteredIn(invoked, i, Dep(results[i].key, results[i].name)) = 2


(***************************************************************************)
(* C27.  When a root resolve fails because a factory threw or because a    *)
(* resolve made inside it (by a factory or by a delayed callback) found no *)
(* registration, found a record with neither instance nor factory, or ran  *)
(* into the cycle check, the caller gets one resolution error: its cause   *)
(* is the original error, not a resolution error itself, and its stack     *)
(* starts with the root request and ends with the (key, name) of the       *)
(* factory that failed.                                                    *)
(***************************************************************************)
C27_NestedErrorsWrappedOnce ==
    \A i \in DOMAIN results :
        (/\ results[i].op = "resolve" /\ results[i].kind = "exc"
         /\ \E k \in DOMAIN invoked : invoked[k].call = i) =>
            LET e == results[i].err
            IN  /\ e.type = "ServiceResolutionError"
                /\ e.cause \in {"thrown", "RangeError", "TypeError", "Error"}
                /\ e.stack # <<>>
                /\ e.stack[1] = Dep(results[i].key, results[i].name)
                /\ e.stack[Len(e.stack)] = Dep(e.key, e.name)
                /\ \E k \in DOMAIN invoked :
                       /\ invoked[k].call = i
                       /\ invoked[k].key = e.key /\ invoked[k].name = e.name


(***************************************************************************)
(* C28.  The path stack of a context holds exactly the entries of the      *)
(* resolve calls in progress on it, oldest first, so every resolve call,   *)
(* whether it returns or throws, hits a cache or runs a factory, leaves    *)
(* the stack as it found it; while the registered factory of (key, name)   *)
(* runs the last entry is (key, name) and the first is the root request;   *)
(* after every root call the stack is empty.                               *)
(***************************************************************************)
\* The entries of the resolve calls in progress on context c that have
\* pushed theirs.
EntriesInProgress(c) ==
    LET InProgress(frame) == frame.k = "resolve" /\ frame.ctx = c /\ frame.pc # "enter"
        frames == SelectSeq(callstack, InProgress)
    IN  [i \in 1..Len(frames) |-> Dep(frames[i].key, frames[i].name)]

C28_StackDiscipline ==
    /\ \A c \in DOMAIN ctxs : ctxs[c].resolutionStack = EntriesInProgress(c)
    /\ \A i \in DOMAIN callstack :
           (/\ i > 1 /\ callstack[i].k = "factory" /\ callstack[i - 1].k = "resolve"
            /\ callstack[1].k = "resolve" /\ callstack[1].ctx = callstack[i].ctx) =>
               LET path == ctxs[callstack[i].ctx].resolutionStack
                   mine == Len(EntriesInProgress(callstack[i].ctx)) -
                           Cardinality({j \in (i + 1)..Len(callstack) :
                                           /\ callstack[j].k = "resolve"
                                           /\ callstack[j].ctx = callstack[i].ctx
                                           /\ callstack[j].pc # "enter"})
               IN  /\ path # <<>>
                   /\ path[1] = Dep(callstack[1].key, callstack[1].name)
                   /\ path[mine] = Dep(callstack[i].key, callstack[i].name)
                   /\ i = Len(callstack) => mine = Len(path)
    /\ Idle => \A c \in DOMAIN ctxs : ctxs[c].resolutionStack = <<>>

\* After a root call that failed, a factory runs three entries deep.
C28_Witness ==
    /\ \E i \in DOMAIN results : results[i].kind = "exc"
    /\ Running /\ Top.k = "factory"
    /\ Len(ctxs[Top.ctx].resolutionStack) >= 3


(***************************************************************************)
(* C29.  isResolvingFor(key, name?) is true exactly when some entry of the *)
(* path stack has that key (and that name, when one is given);             *)
(* isDirectlyResolvingFor(key, name?) is true exactly when the stack has   *)
(* at least two entries and the one before the last has that key (and     *)
(* name, when given); getStack() returns the entries root first, in an     *)
(* array whose later modification by the caller leaves the context's stack *)
(* as it was.                                                              *)
(***************************************************************************)
\* The question the innermost activation has asked.
Asked == callstack[Len(callstack)].asked

C30_ResolvingForAncestorsOnly ==
    [][(/\ Running /\ Top.k = "factory" /\ Len(callstack') = Len(callstack)
        /\ Asked.q = "" /\ Asked'.q = "isResolvingFor") =>
          LET path == ctxs[Top.ctx].resolutionStack
          IN  Asked'.answer <=>
                  \E i \in 1..(Len(path) - 1) :
                      /\ path[i].service = Asked'.key
                      /\ Asked'.name = "" \/ path[i].name = Asked'.name]_vars


(***************************************************************************)
(* C31.  getServiceNames(key) gives the names in the order they were       *)
(* registered: a new name goes to the end, a replaced name keeps its       *)
(* place, removing a name keeps the order of the others, and operations on *)
(* another key change nothing.  resolveAll(key) returns one value per name *)
(* in that order, every one resolved in the context of the call, and the   *)
(* empty list, without an error, when the key has no registration.         *)
(***************************************************************************)
Without(names, name) ==
    LET Other(n) == n # name IN SelectSeq(names, Other)

Occurs(names, name) == \E i \in DOMAIN names : names[i] = name

C31_NamesInRegistrationOrder ==
    [][/\ lastOp'.seq # lastOp.seq =>
              \A key \in {"A", "B"} :
                  LET before == getServiceNames(H, 1, key)
                      after == getServiceNames(H, 1, key)'
                  IN  IF lastOp'.key # key \/ lastOp'.err # "" THEN after = before
                      ELSE IF lastOp'.op \in {"registerConstant", "registerFactory"}
                      THEN after = IF Occurs(before, lastOp'.name) THEN before
                                   ELSE Append(before, lastOp'.name)
                      ELSE IF lastOp'.op = "unregister"
                      THEN after = IF lastOp'.name = "" THEN <<>>
                                   ELSE Without(before, lastOp'.name)
                      ELSE after = before
       /\ (callstack # <<>> /\ callstack' = <<>> /\ callstack[1].k = "resolveAll") =>
              LET names == getServiceNames(H, 1, callstack[1].key)
                  records == MergedRegs(H, 1, callstack[1].key)
                  outcome == results'[Len(results')]
              IN  /\ outcome.kind = "val"
                  /\ Len(outcome.vs) = Len(names)
                  /\ \A i \in DOMAIN names :
                         /\ IF regs[records[i]].factory = 0
                            THEN outcome.vs[i] = regs[records[i]].instance
                            ELSE /\ outcome.vs[i] > 0
                                 /\ objs'[outcome.vs[i]].f = regs[records[i]].factory
                         /\ \E k \in DOMAIN handed' :
                                /\ handed'[k].call = Len(results')
                                /\ handed'[k].ctx = callstack[1].ctx
                                /\ handed'[k].name = names[i]
                                /\ handed'[k].v = outcome.vs[i]
                  /\ \A k \in DOMAIN handed' :
                         handed'[k].call = Len(results') =>
                             handed'[k].ctx = callstack[1].ctx]_vars

\* With n1 registered before default and then replaced by a factory,
\* resolveAll returned the factory's object first and the constant second.
C31_Witness ==
    /\ getServiceNames(H, 1, "A") = <<"n1", "default">>
    /\ Idle /\ results # <<>>
    /\ LET last == results[Len(results)]
       IN  /\ last.op = "resolveAll" /\ Len(last.vs) = 2
           /\ last.vs[1] > 0 /\ last.vs[2] = ExtObject1


(***************************************************************************)
(* C32.  Every record of a live registry or of a snapshot holds a          *)
(* registered value and no factory, or a factory; a record holding a value *)
(* always resolves to that value; no resolve ends with the error for a     *)
(* record that has neither instance nor factory.                           *)
(***************************************************************************)
RecordsOf(view) ==
    UNION {{view[key][i] : i \in DOMAIN view[key]} : key \in ServiceKeys}

RecordsInUse ==
    UNION {RecordsOf(OwnView(H, c)) \cup
           UNION {RecordsOf(SnapshotView(H, c)[i]) : i \in DOMAIN snapshots[c]} :
               c \in DOMAIN parent}

C32_ValueOrFactory ==
    /\ \A r \in RecordsInUse : r.factory = 0 => r.instance # Undefined
    /\ \A k \in DOMAIN handed :
           (handed[k].denoted # 0 /\ regs[handed[k].denoted].factory = 0) =>
               handed[k].v = regs[handed[k].denoted].instance
    /\ \A i \in DOMAIN results :
           results[i].kind = "exc" =>
               results[i].err.type # "TypeError" /\ results[i].err.cause # "TypeError"


(***************************************************************************)
(* C33.  The registrations a root call sees are those of the merged view   *)
(* at its start: while the call is in progress no registration added,      *)
(* replaced or removed on the container or an ancestor changes the lists   *)
(* of records its context resolves against, for a container without a     *)
(* parent as for one with a parent.                                        *)
(***************************************************************************)
\* The lists of records the context of the root call in progress looks up.
ViewOfCall ==
    [key \in ServiceKeys |-> RegsOf(H, ctxs[callstack[1].ctx].registry, key)]

C33_ViewFixedAtStart ==
    [][(Running /\ callstack' # <<>>) => ViewOfCall' = ViewOfCall]_vars


(***************************************************************************)
(* C34.  A root resolve, resolveAll, resolveTuple or getServiceNames call, *)
(* returning or failing, leaves the containers as they were: the keys,     *)
(* the names and their order, the lifecycles, factories and constants of   *)
(* every live registry and snapshot, and the snapshot stacks; computing    *)
(* the merged view of a child leaves the parent's lists alone.  The one    *)
(* change is the instance a call stores on a singleton record whose        *)
(* factory ran in that call.                                               *)
(***************************************************************************)
ContainerState ==
    [c \in Containers |->
        [parent |-> parent[c],
         keys |-> {key \in ServiceKeys : maps[registry[c]][key] # 0},
         own |-> Registered(H, registry[c]),
         snapshots |-> [i \in 1..Depth(H, c) |-> Registered(H, snapshots[c][i])]]]

C34_CallsLeaveContainersAlone ==
    [][(\/ Running \/ Running'
        \/ lastOp'.seq # lastOp.seq /\ lastOp'.op = "getServiceNames") =>
          /\ ContainerState' = ContainerState
          /\ Len(regs') = Len(regs)
          /\ \A r \in DOMAIN regs :
                 regs'[r].instance # regs[r].instance =>
                     /\ regs[r].lifecycle = "singleton" /\ regs[r].factory # 0
                     /\ ret.kind = "val" /\ regs'[r].instance = ret.v
                     /\ \E k \in DOMAIN invoked :
                            invoked[k].reg = r /\ invoked[k].call = CurrentCall]_vars

\* After a failed root call, a call on the child has stored a singleton on
\* the record of the parent, which has a snapshot on its stack.
C34_Witness ==
    /\ Idle /\ Depth(H, 1) = 1
    /\ \E r \in DOMAIN regs :
           /\ regs[r].lifecycle = "singleton" /\ Truthy(regs[r].instance)
           /\ \E k \in DOMAIN invoked : invoked[k].reg = r /\ ctxs[invoked[k].ctx].container = 2


(***************************************************************************)
(* C35.  What happens on a child container does not reach its parent: an   *)
(* object returned by a resolve on the parentless container holds only     *)
(* dependencies that registrations of that container supply; none comes    *)
(* from a registration of the child.                                       *)
(***************************************************************************)
SuppliedBy(c, v) ==
    \E key \in ServiceKeys :
        \E i \in DOMAIN OwnRegs(H, c, key) :
            LET r == regs[OwnRegs(H, c, key)[i]]
            IN  r.factory = 0 /\ r.instance = v

C35_ChildDoesNotReachParent ==
    \A i \in DOMAIN results :
        (/\ results[i].op = "resolve" /\ results[i].kind = "val"
         /\ ctxs[results[i].ctx].container = 1 /\ results[i].v > 0) =>
            \A j \in DOMAIN objs[results[i].v].fields :
                SuppliedBy(1, objs[results[i].v].fields[j])


(***************************************************************************)
(* C36.  CircularDependency is raised only when the path really repeats:   *)
(* when a resolve fails the cycle check, its (key, name) pair, compared by *)
(* the key itself and the name, is on the path before, and the pairs from  *)
(* its first occurrence to the entry before it are one sequence twice.     *)
(* Keys that differ and print alike are never taken for a cycle.           *)
(***************************************************************************)
PairsAtEnter == Append(ctxs[Top.ctx].resolutionStack, Dep(Top.key, Top.name))

C36_CycleMeansRepeatedPairs ==
    [][(/\ Running /\ Top.k = "resolve" /\ Top.pc = "enter" /\ ret.kind = "none"
        /\ CircularDependencyRaised') => TwoHalves(PairsAtEnter)]_vars


RegistriesOf(c) == {registry[c]} \cup {snapshots[c][i] : i \in DOMAIN snapshots[c]}

C38_RegistriesWellFormed ==
    \A c \in Containers :
        \A m \in RegistriesOf(c) :
            \A key \in ServiceKeys :
                maps[m][key] # 0 =>
                    LET list == lists[maps[m][key]]
                    IN  /\ list # <<>>
                        /\ \A i, j \in DOMAIN list :
                               regs[list[i]].name = regs[list[j]].name => i = j

\* The only registration of A went by its name, and with it the key, while
\* a snapshot taken before it was replaced holds A.
C38_Witness ==
    /\ Idle /\ lastOp.op = "unregister" /\ lastOp.name = "default"
    /\ maps[registry[1]]["A"] = 0
    /\ snapshots[1] # <<>>
    /\ \E i \in DOMAIN snapshots[1] :
           /\ maps[snapshots[1][i]]["A"] # 0
           /\ Len(lists[maps[snapshots[1][i]]["A"]]) = 1
    /\ \E r \in DOMAIN regs : regs[r].name = "n1"


(***************************************************************************)
(* C39.  A resolve that fails because its factory threw, or because the    *)
(* cycle check failed, stores nothing: the instance of the registration    *)
(* and the entry of the request cache for its (key, name) are as they were *)
(* when it started, its entry is off the path stack, and no factory is     *)
(* invoked again for it; a later resolve of the same Singleton or Request  *)
(* (key, name) invokes the factory again.                                  *)
(***************************************************************************)
\* The step in which the innermost resolve call fails after its factory
\* threw, or at the cycle check.
FactoryThrew == Running /\ Top.k = "resolve" /\ Top.pc = "factory" /\ ret.kind = "exc"

CycleCheckFails ==
    /\ Running /\ Top.k = "resolve" /\ Top.pc = "enter" /\ ret.kind = "none"
    /\ CircularDependencyRaised'

C39_FailureStoresNothing ==
    [][(FactoryThrew \/ CycleCheckFails) =>
          LET c == Top.ctx
              found == getServiceRegistration(ctxs[c].registry, Top.key, Top.name)
          IN  /\ regs' = regs /\ invoked' = invoked /\ objs' = objs
              /\ ctxs'[c].resolved = ctxs[c].resolved
              /\ findInResolved(ctxs[c].resolved, Top.key, Top.name) = Undefined
              /\ found.err = "" /\ regs[found.reg].instance = Undefined
              /\ ctxs'[c].resolutionStack = EntriesInProgress(c)'
              /\ Len(callstack') = Len(callstack) - 1
              /\ LastOutcome'.kind = "exc"]_vars

\* The root resolve of a singleton failed, and the next one invoked the
\* factory of the same registration again and stored what it made.
C39_Witness ==
    /\ Idle /\ Len(results) >= 2
    /\ \E i, j \in DOMAIN invoked :
           /\ invoked[i].reg = invoked[j].reg /\ invoked[i].call < invoked[j].call
           /\ results[invoked[i].call].kind = "exc"
           /\ results[invoked[j].call].kind = "val"
           /\ regs[invoked[i].reg].lifecycle = "singleton"
           /\ regs[invoked[i].reg].instance = results[invoked[j].call].v


(***************************************************************************)
(* C40.  Delayed callbacks of a failed subtree never run: a callback that  *)
(* is started belongs to an instance whose factory is still running, whose *)
(* resolve is running its callbacks, or which a resolve has returned.  The *)
(* callbacks a failed resolve left in the queue are not run later on the   *)
(* same context, also not when a factory caught the failure and the        *)
(* resolve around it goes on.                                              *)
(***************************************************************************)
\* The step in which a resolve takes the next callback from the queue.
CallbackStarts ==
    /\ Running /\ Top.k = "resolve" /\ Top.pc = "drain"
    /\ Len(callstack') = Len(callstack) + 1
    /\ callstack'[Len(callstack')].k = "callback"

C40_NoCallbackOfFailedSubtree ==
    [][CallbackStarts =>
          LET o == callstack'[Len(callstack')].obj
          IN  \/ \E i \in DOMAIN callstack :
                     \/ callstack[i].k = "factory" /\ callstack[i].obj = o
                     \/ /\ callstack[i].k = "resolve" /\ callstack[i].pc = "drain"
                        /\ callstack[i].val = o
              \/ \E k \in DOMAIN handed : handed[k].v = o]_vars

====
